---- MODULE Spec2Model ----
(***************************************************************************)
(* fondos (src/src/main.rs): a run of main() as a state machine.           *)
(*                                                                         *)
(* One run loads funds.dat, reads three reports line by line from the      *)
(* standard input (account status, pages of 'Ultimos Movimientos', fund    *)
(* and unit values), merges their rows into the table and saves the table  *)
(* when its hash changed.  A step of the machine is one line read by one   *)
(* of the read loops, or one file-system call of the save.                 *)
(*                                                                         *)
(* Text is a sequence of one-character strings.  Positions in vectors are  *)
(* 1-based here and 0-based in the source.                                 *)
(***************************************************************************)
EXTENDS Integers, Sequences, FiniteSets, TLC

(***************************************************************************)
(* Bounds of the model.                                                    *)
(***************************************************************************)
\* Lines parsed as table rows in one full run (Spec).
MaxLines == 3
\* Lines parsed as table rows in the pages of the action pass (SpecPages).
MaxPageRows == 4
\* The greatest of the small amounts, in cents, read as a balance (SpecMoney).
MaxCents == 299

(***************************************************************************)
(* Generic helpers on sequences.                                           *)
(***************************************************************************)
Max(a, b) == IF a >= b THEN a ELSE b

RECURSIVE Pow10(_)
Pow10(n) == IF n = 0 THEN 1 ELSE 10 * Pow10(n - 1)

\* The text without the characters of cs: str::replace(&[..][..], "").
RECURSIVE replace(_, _)
replace(s, cs) ==
    IF s = <<>> THEN <<>>
    ELSE IF Head(s) \in cs THEN replace(Tail(s), cs)
         ELSE <<Head(s)>> \o replace(Tail(s), cs)

(***************************************************************************)
(* Text of the reports.                                                    *)
(***************************************************************************)
Digits == {"0", "1", "2", "3", "4", "5", "6", "7", "8", "9"}

DigitVal(c) ==
    CASE c = "0" -> 0 [] c = "1" -> 1 [] c = "2" -> 2 [] c = "3" -> 3
      [] c = "4" -> 4 [] c = "5" -> 5 [] c = "6" -> 6 [] c = "7" -> 7
      [] c = "8" -> 8 [] c = "9" -> 9

RECURSIVE DigitsVal(_)
DigitsVal(s) ==
    IF s = <<>> THEN 0 ELSE DigitsVal(SubSeq(s, 1, Len(s) - 1)) * 10 + DigitVal(s[Len(s)])

\* Cent counts c below 300, and from 102400 to 102499, for which the f64
\* nearest to the decimal c/100, multiplied by 100.0, falls just below c, so
\* that `as i64` truncates to c - 1.
LossyCents == {29, 57, 58, 113, 114, 115, 116, 201, 203, 205, 207, 226, 228, 230,
               232, 251, 253, 255,
               102409, 102410, 102411, 102412, 102434, 102435, 102436, 102437,
               102459, 102460, 102461, 102462, 102484, 102485, 102486, 102487}

\* The digits before and after the point make a number when there is at
\* most one point, nothing but digits around it, and at least one digit.
Decimal(neg, dots, ip, fp) ==
    IF /\ Cardinality(dots) <= 1
       /\ \A i \in 1..Len(ip) : ip[i] \in Digits
       /\ \A i \in 1..Len(fp) : fp[i] \in Digits
       /\ Len(ip) + Len(fp) > 0
    THEN [ok |-> TRUE, neg |-> neg, digits |-> DigitsVal(ip \o fp), places |-> Len(fp)]
    ELSE [ok |-> FALSE, neg |-> FALSE, digits |-> 0, places |-> 0]

\* The text split at its first point p (Len + 1 when it has none).
SplitAtPoint(neg, body, dots, p) ==
    Decimal(neg, dots, SubSeq(body, 1, p - 1), SubSeq(body, p + 1, Len(body)))

Unsigned(neg, body, dots) ==
    SplitAtPoint(neg, body, dots,
                 IF dots = {} THEN Len(body) + 1 ELSE CHOOSE i \in dots : TRUE)

Signed(neg, body) == Unsigned(neg, body, {i \in 1..Len(body) : body[i] = "."})

\* str::parse::<f64>() of a plain decimal: the number as its digits and the
\* count of those after the point.  [ok |-> FALSE] when the text is no number;
\* only the forms [-]digits[.digits] and [-].digits of the f64 grammar are modelled.
ParseF64(s) ==
    IF s # <<>> /\ Head(s) = "-" THEN Signed(TRUE, Tail(s)) ELSE Signed(FALSE, s)

\* A product that is exact and whose f64 falls short truncates one cent lower.
Truncated(neg, scaled, exact) ==
    IF exact /\ scaled \in LossyCents
    THEN (IF neg THEN 1 - scaled ELSE scaled - 1)
    ELSE (IF neg THEN 0 - scaled ELSE scaled)

\* (f * 100.0) as i64 of a parsed number: the product truncated toward zero.
ToCents(f) ==
    Truncated(f.neg, (f.digits * 100) \div Pow10(f.places),
              (f.digits * 100) % Pow10(f.places) = 0)

CentsOf(f) == [ok |-> f.ok, cents |-> IF f.ok THEN ToCents(f) ELSE 0]

\* A money cell after its stray characters are removed: parse, then cents.
ParseCents(s) == CentsOf(ParseF64(s))

Hundredths(neg, v) == IF neg THEN 0 - v ELSE v

PercentOf(f) ==
    [ok |-> f.ok,
     value |-> IF f.ok THEN Hundredths(f.neg, (f.digits * 100) \div Pow10(f.places))
               ELSE 0]

\* A percentage as an exact count of hundredths of a percent (the f64 itself
\* is kept by the code; two decimal places are enough for the cells modelled).
ParsePercent(s) == PercentOf(ParseF64(s))

\* Days of each month of a common year, and the days before a month.
DaysIn(m) == CASE m \in {1, 3, 5, 7, 8, 10, 12} -> 31
               [] m \in {4, 6, 9, 11} -> 30
               [] OTHER -> 28

RECURSIVE DaysBefore(_)
DaysBefore(m) == IF m <= 1 THEN 0 ELSE DaysBefore(m - 1) + DaysIn(m - 1)

\* chrono::NaiveDate::parse_from_str of a cell already split in <<d, m, y>>
\* (common years from 2021 on); a text that is no date is the cell <<>>.
\* A date is its day number from 1 January 2021, so that dates compare as
\* chrono::NaiveDate values do.
ParseDate(c) ==
    IF /\ Len(c) = 3
       /\ c[3] >= 2021
       /\ c[2] \in 1..12
       /\ c[1] \in 1..DaysIn(c[2])
    THEN [ok |-> TRUE, date |-> (c[3] - 2021) * 365 + DaysBefore(c[2]) + c[1]]
    ELSE [ok |-> FALSE, date |-> 0]

\* chrono::Local::today().naive_local(): the date of the run (10 January).
date == 10

(***************************************************************************)
(* Fund names.  The code compares names with ==, untouched.                *)
(***************************************************************************)
FundA  == <<"a">>
FundA2 == <<"A", " ">>
FundB  == <<"b">>

Lower(c) == CASE c = "A" -> "a" [] c = "B" -> "b" [] OTHER -> c

RECURSIVE TrimStart(_)
TrimStart(s) == IF s # <<>> /\ Head(s) = " " THEN TrimStart(Tail(s)) ELSE s

RECURSIVE TrimEnd(_)
TrimEnd(s) ==
    IF s # <<>> /\ s[Len(s)] = " " THEN TrimEnd(SubSeq(s, 1, Len(s) - 1)) ELSE s

\* The key of a fund name: trimmed and lowercased.
Normalized(s) == LET t == TrimEnd(TrimStart(s)) IN [i \in 1..Len(t) |-> Lower(t[i])]

(***************************************************************************)
(* The table: struct Series, struct Table, and the lookups of the merges.  *)
(***************************************************************************)
NewSeries(fund, balance, action, fund_value) ==
    [fund |-> fund, balance |-> balance, action |-> action, fund_value |-> fund_value]

\* Iterator::position / find over the outcomes of the closure on the elements,
\* in order: the first index whose outcome is true, or 0.
position(found) ==
    IF \E i \in 1..Len(found) : found[i]
    THEN CHOOSE i \in 1..Len(found) : found[i] /\ \A j \in 1..(i - 1) : ~found[j]
    ELSE 0

\* calculate_hash(&table): what derive(Hash) feeds to the hasher: the Series in
\* order, each with its fields in the order of their declaration.  The final
\* mixing of the feed into 64 bits is not modelled.
calculate_hash(t) ==
    [i \in 1..Len(t) |-> <<t[i].fund, t[i].balance, t[i].action, t[i].fund_value>>]

(***************************************************************************)
(* Balance pass: the merge of one account-status row.                      *)
(***************************************************************************)
\* Mutant of BalanceUpsert: a differing balance is reported and not stored.
BalanceUpsertKeeps(t, fund_str, balance) ==
    LET i == position([n \in 1..Len(t) |-> t[n].fund = fund_str])
        j == IF i = 0 THEN 0
             ELSE position([n \in 1..Len(t[i].balance) |-> t[i].balance[n].date = date])
    IN  [table |-> IF i = 0
                   THEN Append(t, NewSeries(fund_str,
                                   <<[date |-> date, balance |-> balance]>>, <<>>, <<>>))
                   ELSE IF j = 0
                   THEN [t EXCEPT ![i].balance =
                           Append(@, [date |-> date, balance |-> balance])]
                   ELSE t,
         msgs  |-> IF i # 0 /\ j # 0 /\ t[i].balance[j].balance # balance
                   THEN <<"Warning: Fund changing balance">> ELSE <<>>]

\* Mutant of BalanceUpsert: the balance is pushed without the lookup of the date.
BalanceUpsertPush(t, fund_str, balance) ==
    LET i == position([n \in 1..Len(t) |-> t[n].fund = fund_str])
    IN  [table |-> IF i = 0
                   THEN Append(t, NewSeries(fund_str,
                                   <<[date |-> date, balance |-> balance]>>, <<>>, <<>>))
                   ELSE [t EXCEPT ![i].balance =
                           Append(@, [date |-> date, balance |-> balance])],
         msgs  |-> <<>>]

\* Mutant of BalanceUpsert: the balance of the run takes the place of the
\* balances stored.
BalanceUpsertReplaces(t, fund_str, balance) ==
    LET i == position([n \in 1..Len(t) |-> t[n].fund = fund_str])
    IN  [table |-> IF i = 0
                   THEN Append(t, NewSeries(fund_str,
                                   <<[date |-> date, balance |-> balance]>>, <<>>, <<>>))
                   ELSE [t EXCEPT ![i].balance = <<[date |-> date, balance |-> balance]>>],
         msgs  |-> <<>>]

\* The row's balance into the Series of fund_str at the date of the run.
BalanceUpsert(t, fund_str, balance) ==
    LET i == position([n \in 1..Len(t) |-> t[n].fund = fund_str])
    IN  IF i = 0
        THEN [table |-> Append(t, NewSeries(fund_str,
                                  <<[date |-> date, balance |-> balance]>>, <<>>, <<>>)),
              msgs  |-> <<>>]
        ELSE LET j == position([n \in 1..Len(t[i].balance) |-> t[i].balance[n].date = date])
             IN  IF j = 0
                 THEN [table |-> [t EXCEPT ![i].balance =
                                    Append(@, [date |-> date, balance |-> balance])],
                       msgs  |-> <<>>]
                 ELSE IF t[i].balance[j].balance # balance
                 THEN [table |-> [t EXCEPT ![i].balance[j].balance = balance],
                       msgs  |-> <<"Warning: Fund changing balance">>]
                 ELSE [table |-> t, msgs |-> <<>>]

\* A line read in Mode::Table of the balance pass, split at the tabs.
\* is_error tells a fatal message from a warning.
BalanceRow(t, cells) ==
    IF Len(cells) < 2
    THEN [table |-> t, msgs |-> <<"nG9Y1h3k">>, is_error |-> TRUE]
    ELSE LET balance_str == replace(cells[2], {"$", ",", " "})
             balance_f   == ParseCents(balance_str)
         IN  IF ~balance_f.ok
             THEN [table |-> t, msgs |-> <<"66bVN54K">>, is_error |-> TRUE]
             ELSE LET r == BalanceUpsert(t, cells[1], balance_f.cents)
                  IN  [table |-> r.table, msgs |-> r.msgs, is_error |-> FALSE]

(***************************************************************************)
(* Action pass: the merge of one row and the end-of-page reconciliation.   *)
(***************************************************************************)
\* An action has the signature (date, change).
SameAction(a, d, change) == a.date = d /\ a.change = change

\* Mutant of SameRepetition: one counter for all the actions of a fund.
SameRepetitionOfFund(r, fund_index, action_index) == r.fund_index = fund_index

\* Mutant of SameRepetition: one counter for the actions at an index, whatever
\* the fund.
SameRepetitionOfIndex(r, fund_index, action_index) == r.action_index = action_index

\* The Repetition counting the action at (fund_index, action_index).
SameRepetition(r, fund_index, action_index) ==
    r.fund_index = fund_index /\ r.action_index = action_index

\* Mutant of ActionSign: a partial withdrawal taken for a contribution.
ActionSignOfAporte(action_str) ==
    CASE action_str \in {"Aporte", "Aporte por traslado de otro portafolio",
                         "Retiro parcial"} -> 1
      [] action_str \in {"Aporte por traslado a otro portafolio"} -> -1
      [] OTHER -> 0

\* The sign of an action label; 0 for a label that is not recognized.
ActionSign(action_str) ==
    CASE action_str \in {"Aporte", "Aporte por traslado de otro portafolio"} -> 1
      [] action_str \in {"Aporte por traslado a otro portafolio", "Retiro parcial"} -> -1
      [] OTHER -> 0

\* Mutant of ActionMerge: the change is also stored as a balance of its date.
ActionMergeWithBalance(t, reps, fund_str, d, change) ==
    LET fund_index == position([n \in 1..Len(t) |-> t[n].fund = fund_str])
    IN  IF fund_index = 0
        THEN [table |-> Append(t, NewSeries(fund_str,
                                  <<[date |-> d, balance |-> change]>>,
                                  <<[date |-> d, change |-> change]>>, <<>>)),
              repetitions |-> reps]
        ELSE [table |-> [t EXCEPT ![fund_index].action =
                                      Append(@, [date |-> d, change |-> change]),
                                  ![fund_index].balance =
                                      Append(@, [date |-> d, balance |-> change])],
              repetitions |-> reps]

\* A parsed row (fund_str, date, change) into the table and the repetitions.
ActionMerge(t, reps, fund_str, d, change) ==
    LET fund_index == position([n \in 1..Len(t) |-> t[n].fund = fund_str])
    IN  IF fund_index = 0
        THEN [table |-> Append(t, NewSeries(fund_str, <<>>,
                                  <<[date |-> d, change |-> change]>>, <<>>)),
              repetitions |-> reps]
        ELSE LET action_index ==
                     position([n \in 1..Len(t[fund_index].action) |->
                                  SameAction(t[fund_index].action[n], d, change)])
             IN  IF action_index = 0
                 THEN [table |-> [t EXCEPT ![fund_index].action =
                                    Append(@, [date |-> d, change |-> change])],
                       repetitions |-> reps]
                 ELSE LET k == position([n \in 1..Len(reps) |->
                                  SameRepetition(reps[n], fund_index, action_index)])
                      IN  [table |-> t,
                           repetitions |->
                               IF k = 0
                               THEN Append(reps, [fund_index |-> fund_index,
                                                  action_index |-> action_index,
                                                  repetition |-> 1])
                               ELSE [reps EXCEPT ![k].repetition = @ + 1]]

\* A line read in Mode::Table of an action page, split at the tabs:
\* date, fund, action label, type, amount.
ActionRow(t, reps, cells) ==
    LET fail(code) == [table |-> t, repetitions |-> reps, msgs |-> <<code>>,
                       merged |-> <<>>]
        d == ParseDate(cells[1])
    IN  IF ~d.ok THEN fail("2Zuj7zXV")
        ELSE IF Len(cells) < 2 THEN fail("W55uVkoa")
        ELSE IF Len(cells) < 3 THEN fail("30JGdhKe")
        ELSE IF Len(cells) < 4 THEN fail("T4a6DIuK")
        ELSE IF Len(cells) < 5 THEN fail("Vu3W9Eaw")
        ELSE LET change_str == replace(cells[5], {"$", ",", "\n"})
                 change_abs == ParseCents(change_str)
             IN  IF ~change_abs.ok THEN fail("G9tv9Suj")
                 ELSE IF ActionSign(cells[3]) = 0 THEN fail("KevkgKt9")
                 ELSE LET change == ActionSign(cells[3]) * change_abs.cents
                          r == ActionMerge(t, reps, cells[2], d.date, change)
                      IN  [table |-> r.table, repetitions |-> r.repetitions,
                           msgs |-> <<>>,
                           merged |-> <<[fund |-> cells[2], date |-> d.date,
                                         change |-> change]>>]

\* Mutant of ExtraRepetitions: the stored records are not subtracted.
ExtraRepetitionsUncounted(repetition, count) == repetition

\* Mutant of ExtraRepetitions: the difference taken with the opposite sign.
ExtraRepetitionsReversed(repetition, count) == count - repetition

\* The number of clones to append for a counter and the stored count.
ExtraRepetitions(repetition, count) == repetition - count

RECURSIVE Clones(_, _)
Clones(a, n) == IF n <= 0 THEN <<>> ELSE <<a>> \o Clones(a, n - 1)

\* for r in repetitions { ... }: the reconciliation at the end of a page.
RECURSIVE Reconcile(_, _)
Reconcile(t, reps) ==
    IF reps = <<>> THEN t
    ELSE LET r      == Head(reps)
             action == t[r.fund_index].action
             a      == action[r.action_index]
             count  == Cardinality({i \in 1..Len(action) :
                                      SameAction(action[i], a.date, a.change)})
             n      == ExtraRepetitions(r.repetition, count)
         IN  Reconcile([t EXCEPT ![r.fund_index].action = action \o Clones(a, n)],
                       Tail(reps))

(***************************************************************************)
(* Fund and unit values pass: the merge of one row of each sub-table.      *)
(***************************************************************************)
\* A return-on-equity cell is its text before the first space (head) and the
\* text after it (tail); a cell without a space has the tail "none".
Roe(head, tail) == [head |-> head, tail |-> tail]

\* The cells "NA " and "NA\n".
NaSpace   == Roe(<<"N", "A">>, "")
NaNewline == Roe(<<"N", "A", "\n">>, "none")

RoeValue(f) ==
    IF f.ok THEN [ok |-> TRUE, code |-> "", value |-> f.value]
    ELSE [ok |-> FALSE, code |-> "parse", value |-> 0]

\* split_once(' ') must leave the suffix, and the number must parse.
RoeOf(raw, suffix) ==
    IF raw.tail = "none" THEN [ok |-> FALSE, code |-> "no value", value |-> 0]
    ELSE IF raw.tail # suffix THEN [ok |-> FALSE, code |-> "erroneous value", value |-> 0]
    ELSE RoeValue(ParsePercent(raw.head))

\* One return on equity: the cell na (if any) reads as "0" with the suffix.
ParseRoe(cell, na, suffix) ==
    RoeOf(IF cell = na THEN Roe(<<"0">>, suffix) ELSE cell, suffix)

\* Mutant of FundValueUpsert: of a record found, only the fund value is overwritten.
FundValueUpsertFirstField(t, fund_str, d, fund_value, unit_value) ==
    LET i == position([n \in 1..Len(t) |-> t[n].fund = fund_str])
        rec == [date |-> d, fund_value |-> fund_value, unit_value |-> unit_value]
        j == IF i = 0 THEN 0
             ELSE position([n \in 1..Len(t[i].fund_value) |-> t[i].fund_value[n].date = d])
    IN  IF i = 0
        THEN [table |-> Append(t, NewSeries(fund_str, <<>>, <<>>, <<rec>>)), msgs |-> <<>>]
        ELSE IF j = 0
        THEN [table |-> [t EXCEPT ![i].fund_value = Append(@, rec)], msgs |-> <<>>]
        ELSE [table |-> [t EXCEPT ![i].fund_value[j].fund_value = fund_value],
              msgs  |-> (IF t[i].fund_value[j].fund_value # fund_value
                         THEN <<"Warning nwSSqjjY">> ELSE <<>>)
                        \o (IF t[i].fund_value[j].unit_value # unit_value
                            THEN <<"Warning bxZohaYm">> ELSE <<>>)]

\* The row's values into the Series of fund_str at the row's date.
FundValueUpsert(t, fund_str, d, fund_value, unit_value) ==
    LET i == position([n \in 1..Len(t) |-> t[n].fund = fund_str])
        rec == [date |-> d, fund_value |-> fund_value, unit_value |-> unit_value]
    IN  IF i = 0
        THEN [table |-> Append(t, NewSeries(fund_str, <<>>, <<>>, <<rec>>)), msgs |-> <<>>]
        ELSE LET j == position([n \in 1..Len(t[i].fund_value) |-> t[i].fund_value[n].date = d])
             IN  IF j = 0
                 THEN [table |-> [t EXCEPT ![i].fund_value = Append(@, rec)], msgs |-> <<>>]
                 ELSE [table |-> [t EXCEPT ![i].fund_value[j] = rec],
                       msgs  |-> (IF t[i].fund_value[j].fund_value # fund_value
                                  THEN <<"Warning nwSSqjjY">> ELSE <<>>)
                                 \o (IF t[i].fund_value[j].unit_value # unit_value
                                     THEN <<"Warning bxZohaYm">> ELSE <<>>)]

NewFundCuml(fund, y2, y1, ytd) ==
    [fund |-> fund, roe_next_to_last_year |-> y2, roe_last_year |-> y1,
     roe_year_to_date |-> ytd, roe_day |-> 0, roe_day_annualized |-> 0,
     roe_month |-> 0, roe_trimester |-> 0, roe_semester |-> 0, roe_year |-> 0,
     roe_2_years |-> 0, roe_total |-> 0]

\* The row is merged once its last field is parsed.
ValueMerged(cuml, fund_str, y2, y1, ytd, r) ==
    [table |-> r.table,
     table_cuml |-> Append(cuml, NewFundCuml(fund_str, y2.value, y1.value, ytd.value)),
     msgs |-> r.msgs, is_error |-> FALSE]

\* Mutant of ValueFailed: the record of the fund is pushed before the field
\* that fails is parsed.
ValueFailedAfterPush(t, cuml, code) ==
    [table |-> t, table_cuml |-> Append(cuml, NewFundCuml(<<>>, 0, 0, 0)),
     msgs |-> <<code>>, is_error |-> TRUE]

ValueFailed(t, cuml, code) ==
    [table |-> t, table_cuml |-> cuml, msgs |-> <<code>>, is_error |-> TRUE]

\* The fields of a row in the order the code takes them; n is the number of cells.
ValueFields(t, cuml, cells, n, d, fund_value, unit_value, y2, y1, ytd) ==
    IF n < 2 THEN ValueFailed(t, cuml, "7v683sZZ")
    ELSE IF ~d.ok THEN ValueFailed(t, cuml, "4BrJKI0R")
    ELSE IF n < 3 THEN ValueFailed(t, cuml, "Yh34EUqI")
    ELSE IF ~fund_value.ok THEN ValueFailed(t, cuml, "eA99hBWu")
    ELSE IF n < 4 THEN ValueFailed(t, cuml, "4j1BTEnT")
    ELSE IF ~unit_value.ok THEN ValueFailed(t, cuml, "0Rb67Jut")
    ELSE IF n < 5 THEN ValueFailed(t, cuml, "Uk94XWcH")
    ELSE IF cells[5] # <<"$", ".", "0", "0", " ">> THEN ValueFailed(t, cuml, "ZgP73cLu")
    ELSE IF n < 6 THEN ValueFailed(t, cuml, "Y0X6wn8Q")
    ELSE IF cells[6] # <<>> THEN ValueFailed(t, cuml, "OjPUwScT")
    ELSE IF n < 7 THEN ValueFailed(t, cuml, "fOh75gXn")
    ELSE IF ~y2.ok THEN ValueFailed(t, cuml, "roe_next_to_last_year")
    ELSE IF n < 8 THEN ValueFailed(t, cuml, "Qs99xDNc")
    ELSE IF ~y1.ok THEN ValueFailed(t, cuml, "roe_last_year")
    ELSE IF n < 9 THEN ValueFailed(t, cuml, "FnenKjVU")
    ELSE IF ~ytd.ok THEN ValueFailed(t, cuml, "roe_year_to_date")
    ELSE ValueMerged(cuml, cells[1], y2, y1, ytd,
                     FundValueUpsert(t, cells[1], d.date, fund_value.cents,
                                     unit_value.cents))

\* "%d / %m / %y ": the year has two digits and counts from 2000.
ParseDate2(c) ==
    ParseDate(IF Len(c) = 3 THEN <<c[1], c[2], c[3] + 2000>> ELSE c)

\* A line read in Mode1::Table: fund, date, fund value, unit value, "$.00 ",
\* "", and the returns of the next-to-last year, the last year and the year to date.
ValueRow(t, cuml, cells) ==
    ValueFields(t, cuml, cells, Len(cells),
                ParseDate2(cells[2]),
                ParseCents(replace(cells[3], {"$", ",", " "})),
                ParseCents(replace(cells[4], {"$", ",", " "})),
                ParseRoe(cells[7], NaSpace, "% EA "),
                ParseRoe(cells[8], NaSpace, "% EA "),
                ParseRoe(cells[9], NaNewline, "% EA\n"))

\* The suffix each cell of a second sub-table row must have, cell by cell.
Value1Suffix == <<"% ", "%EA ", "%EA ", "%EA ", "%EA ", "%EA ", "%EA ", "%EA ", "%EA\n">>

\* The k-th return of a second sub-table row.  No NA cell is recognized
\* here; the annualized day also drops "$", "," and " " before it is parsed.
ParseRoe1(cell, k) ==
    IF k = 2
    THEN RoeOf(Roe(replace(cell.head, {"$", ",", " "}), cell.tail), Value1Suffix[k])
    ELSE RoeOf(cell, Value1Suffix[k])

\* The returns of the row into the record of its fund, if there is one.
Value1Merged(cuml, i, roe) ==
    IF i = 0 THEN cuml
    ELSE [cuml EXCEPT ![i].roe_day = roe[1].value,
                      ![i].roe_day_annualized = roe[2].value,
                      ![i].roe_month = roe[3].value,
                      ![i].roe_trimester = roe[4].value,
                      ![i].roe_semester = roe[5].value,
                      ![i].roe_year = roe[6].value,
                      ![i].roe_2_years = roe[7].value,
                      ![i].roe_total = roe[8].value]

Value1Fields(cuml, cells, roe) ==
    IF Len(roe) < 9 \/ \E k \in 1..Len(roe) : ~roe[k].ok
    THEN [table_cuml |-> cuml, msgs |-> <<"second sub-table">>, is_error |-> TRUE]
    ELSE [table_cuml |->
              Value1Merged(cuml,
                           position([n \in 1..Len(cuml) |-> cuml[n].fund = cells[1]]), roe),
          msgs |-> <<>>, is_error |-> FALSE]

\* A line read in Mode1::Table1: fund, then the returns of the day, the day
\* annualized, the month, the trimester, the semester, the year, 2 years, the
\* total and the year to date (parsed and dropped).
Value1Row(cuml, cells) ==
    Value1Fields(cuml, cells,
                 [k \in 1..(IF Len(cells) > 9 THEN 9 ELSE Len(cells) - 1) |->
                      ParseRoe1(cells[k + 1], k)])

(***************************************************************************)
(* The lines of the reports.  A line is a marker of the report's           *)
(* boilerplate (text) or a payload line, given by its tab-separated cells. *)
(***************************************************************************)
Marker(text) == [text |-> text, cells |-> <<>>]
Payload(cells) == [text |-> "", cells |-> cells]

EofLine == Marker("EOF\n")

Money1   == <<"$", "1", ".", "0", "0">>
Money2   == <<"$", "2", ".", "0", "0">>
MoneyBad == <<"$", "1", ".", "0", "0", "%">>

Day1   == <<1, 1, 2021>>
Day2   == <<2, 1, 2021>>
DayBad == <<31, 13, 2021>>

BalanceLines ==
    {Marker("Anual**\n"), Marker("Total\t"), Marker("Aprenda\n"), EofLine}
    \cup {Payload(<<f, m>>) : f \in {FundA, FundA2}, m \in {Money1, Money2}}
    \cup {Payload(<<FundB, MoneyBad>>), Payload(<<FundB>>)}

ActionLines ==
    {Marker("Fecha\tNombre del "), Marker("\n"), Marker("que origina\n"), EofLine}
    \cup {Payload(<<Day1, FundA, "Aporte", "t", Money1>>),
          Payload(<<Day2, FundA, "Aporte por traslado de otro portafolio", "t", Money1>>),
          Payload(<<Day1, FundA2, "Aporte por traslado a otro portafolio", "t", Money1>>),
          Payload(<<Day1, FundB, "Retiro parcial", "t", Money1>>),
          Payload(<<Day1, FundA, "Rendimientos", "t", Money1>>),
          Payload(<<DayBad, FundA, "Aporte", "t", MoneyBad>>)}

ValueCells(fund, day, money, ytd) ==
    <<fund, day, money, money, <<"$", ".", "0", "0", " ">>, <<>>,
      Roe(<<"1">>, "% EA "), NaSpace, ytd>>

\* The first sub-table of the returns report and the text around it.
ValueLines ==
    {Marker("PORTAFOLIO \tFECHA"), Marker("VALOR TOTAL DEL FONDO "), EofLine}
    \cup {Payload(ValueCells(FundA, <<1, 1, 21>>, Money1, Roe(<<"2">>, "% EA\n"))),
          Payload(ValueCells(FundA, <<1, 1, 21>>, Money2, NaNewline)),
          Payload(ValueCells(FundA2, <<2, 1, 21>>, Money1, Roe(<<"2">>, "% EA\n"))),
          Payload(ValueCells(FundA, <<1, 1, 21>>, Money2, Roe(<<"x">>, "% EA\n")))}

Value1Cells(fund, day) ==
    <<fund, day>> \o [k \in 1..7 |-> Roe(<<"3">>, "%EA ")] \o <<Roe(<<"4">>, "%EA\n")>>

\* The second sub-table of the returns report and the text around it.
Value1Lines ==
    {Marker("Diaria \t"), Marker("\n"), Marker("    Estas rentabilidades"), EofLine}
    \cup {Payload(Value1Cells(FundA, Roe(<<"5">>, "% "))),
          Payload(Value1Cells(FundA, NaSpace))}

\* In a table mode every line that is no marker of that mode is split at the
\* tabs; a marker of another mode is then a line of one cell.
CellsOf(line) == IF line.cells = <<>> THEN <<<<>>>> ELSE line.cells

(***************************************************************************)
(* The files of the save.                                                  *)
(***************************************************************************)
NoFile == [exists |-> FALSE, complete |-> FALSE, data |-> <<>>]
FileOf(t) == [exists |-> TRUE, complete |-> TRUE, data |-> t]
\* A file created and not yet completely written.
Partial == [exists |-> TRUE, complete |-> FALSE, data |-> <<>>]

\* if db_path.exists() { deserialize_from(db_file) } else { a new table }:
\* the table a run starts from; a file not completely written cannot be read.
load(db) ==
    IF ~db.exists THEN [ok |-> TRUE, table |-> <<>>]
    ELSE [ok |-> db.complete, table |-> db.data]

(***************************************************************************)
(* The ledgers funds.dat may hold when the run starts.                     *)
(***************************************************************************)
Loaded1 ==
    <<NewSeries(FundA, <<[date |-> 3, balance |-> 100]>>,
                       <<[date |-> 1, change |-> 100]>>, <<>>)>>

Loaded2 ==
    <<NewSeries(FundB, <<>>, <<>>, <<>>),
      NewSeries(FundA, <<[date |-> date, balance |-> 100]>>,
                       <<[date |-> 1, change |-> 100], [date |-> 2, change |-> 100],
                         [date |-> 1, change |-> 100]>>,
                       <<[date |-> 1, fund_value |-> 100, unit_value |-> 200]>>)>>

LoadedTables == {<<>>, Loaded1, Loaded2}

(***************************************************************************)
(* State.                                                                  *)
(***************************************************************************)
VARIABLES
    pc,              \* the place of main(): the pass being read or the step of the save
    mode,            \* Mode / Mode1 of the read loop
    table,           \* table: Table
    original_hash,   \* calculate_hash of the table as loaded
    errors,          \* the messages of the pass, in order
    errors_produced, \* a message of the pass is fatal
    repetitions,     \* Vec<Repetition> of the page
    table_cuml,      \* Vec<FundCuml>: the returns on equity of the funds
    dat,             \* the file funds.dat
    newf,            \* the file funds.new
    backup,          \* the file funds_backup<timestamp>.dat
    budget,          \* payload lines the model may still read
    loaded,          \* history: the table as loaded
    page,            \* history: the rows merged or counted in the page being read
    pageStart,       \* history: the table when the page being read began
    hist,            \* history: the pages ended by their footer, each with its rows,
                     \*          the table before it and the table after it
    fatal,           \* history: some row of the run produced a fatal message
    input,           \* the line read by the step, when a table mode split it at the tabs
    stdin,           \* the standard input: a terminal, or the lines left of a stream
                     \* and the reads made at its end (modulo 2)
    today,           \* the date the figures count back from
    plots            \* the windows of the first figure drawn so far, in order

vars == <<pc, mode, table, original_hash, errors, errors_produced, repetitions,
          table_cuml, dat, newf, backup, budget, loaded, page, pageStart, hist, fatal,
          input, stdin, today, plots>>

files  == <<dat, newf, backup>>
pages  == <<page, pageStart, hist>>
\* What the three passes and the save leave alone.
beyond == <<stdin, today, plots>>

\* No line is being split.
NoInput == Marker("")

\* The standard input as a terminal: any line may come next.
Terminal == [open |-> TRUE, lines |-> <<>>, reads |-> 0]

\* The standard input as a finite stream of lines.
Stream(lines) == [open |-> FALSE, lines |-> lines, reads |-> 0]

\* io::stdin().read_line(&mut input): the lines that may be read, given those a
\* terminal may offer; at the end of a stream Ok(0) with input left empty.
read_line(offered) ==
    IF stdin.open THEN offered
    ELSE IF stdin.lines # <<>> THEN {Head(stdin.lines)}
    ELSE {Marker("")}

\* The standard input after a read.
Advanced(in) ==
    IF in.open THEN in
    ELSE IF in.lines # <<>> THEN [in EXCEPT !.lines = Tail(@)]
    ELSE [in EXCEPT !.reads = 1 - @]

\* The messages kept of those a read at the end of a stream adds.
MaxMessages == 4

\* errors.push_str(..): the messages of the row added to those of the pass.
Messages(e, msgs) ==
    IF ~stdin.open /\ stdin.lines = <<>> /\ Len(e) >= MaxMessages THEN e ELSE e \o msgs

InitFrom(t, at, n, clock, in) ==
    /\ pc = at
    /\ mode = "Header"
    /\ table = t
    /\ original_hash = calculate_hash(t)
    /\ errors = <<>>
    /\ errors_produced = FALSE
    /\ repetitions = <<>>
    /\ table_cuml = <<>>
    /\ dat = IF t = <<>> THEN NoFile ELSE FileOf(t)
    /\ newf = NoFile
    /\ backup = NoFile
    /\ budget = n
    /\ loaded = t
    /\ page = <<>>
    /\ pageStart = t
    /\ hist = <<>>
    /\ fatal = FALSE
    /\ input = NoInput
    /\ stdin = in
    /\ today = clock
    /\ plots = <<>>

\* A run at a terminal.
InitAt(t, at, n, clock) == InitFrom(t, at, n, clock, Terminal)

\* A run whose clock reads the date of the run.
InitOf(t, at, n) == InitAt(t, at, n, date)

\* main() after funds.dat is loaded (or a new table started).
Init == \E t \in LoadedTables : InitOf(t, "balance", MaxLines)

\* The pass that follows; every pass declares its own errors and mode.
Enter(next) ==
    /\ pc' = next
    /\ mode' = "Header"
    /\ errors' = <<>>
    /\ errors_produced' = FALSE

\* if !errors.is_empty() { consume_input(); } if errors_produced { return; }
AfterLoop(drain, next) ==
    IF errors # <<>>
    THEN /\ pc' = drain
         /\ UNCHANGED <<mode, errors, errors_produced>>
    ELSE Enter(next)

\* Mutant of ConsumeInput: any message, a warning too, ends the run.
ConsumeInputReturns(drain, next) ==
    /\ pc = drain
    /\ \E line \in read_line({EofLine, Marker("\n")}) :
          IF line = EofLine
          THEN pc' = "returned" /\ UNCHANGED <<mode, errors, errors_produced>>
          ELSE UNCHANGED <<pc, mode, errors, errors_produced>>

\* consume_input(): read lines until "EOF\n"; then the return on a fatal message.
ConsumeInput(drain, next) ==
    /\ pc = drain
    /\ \E line \in read_line({EofLine, Marker("\n")}) :
          IF line = EofLine
          THEN IF errors_produced
               THEN pc' = "returned" /\ UNCHANGED <<mode, errors, errors_produced>>
               ELSE Enter(next)
          ELSE UNCHANGED <<pc, mode, errors, errors_produced>>

(***************************************************************************)
(* Balance pass (account status).                                          *)
(***************************************************************************)
BalanceHeader ==
    /\ pc = "balance" /\ mode = "Header"
    /\ \E line \in read_line(BalanceLines) :
          IF line.text = "Anual**\n"
          THEN mode' = "Table" /\ UNCHANGED <<pc, errors, errors_produced>>
          ELSE IF line = EofLine
          THEN AfterLoop("balance_eof", "actions")
          ELSE UNCHANGED <<pc, mode, errors, errors_produced>>
    /\ UNCHANGED <<table, original_hash, table_cuml, repetitions, files, budget, loaded, pages, fatal>>
    /\ input' = NoInput
    /\ stdin' = Advanced(stdin)
    /\ UNCHANGED <<today, plots>>

BalanceTable ==
    /\ pc = "balance" /\ mode = "Table"
    /\ \E line \in read_line(BalanceLines) :
          IF line.text = "Total\t"
          THEN /\ mode' = "Footer"
               /\ input' = NoInput
               /\ UNCHANGED <<pc, errors, errors_produced, table, budget, fatal>>
          ELSE IF line = EofLine
          THEN /\ AfterLoop("balance_eof", "actions")
               /\ input' = NoInput
               /\ UNCHANGED <<table, budget, fatal>>
          ELSE LET r == BalanceRow(table, CellsOf(line))
               IN  /\ stdin.open => budget > 0
                   /\ budget' = IF stdin.open THEN budget - 1 ELSE budget
                   /\ table' = r.table
                   /\ errors' = Messages(errors, r.msgs)
                   /\ errors_produced' = (errors_produced \/ r.is_error)
                   /\ fatal' = (fatal \/ r.is_error)
                   /\ input' = line
                   /\ UNCHANGED <<pc, mode>>
    /\ UNCHANGED <<original_hash, table_cuml, repetitions, files, loaded, pages>>
    /\ stdin' = Advanced(stdin)
    /\ UNCHANGED <<today, plots>>

BalanceFooter ==
    /\ pc = "balance" /\ mode = "Footer"
    /\ \E line \in read_line(BalanceLines) :
          IF line.text = "Aprenda\n" \/ line = EofLine
          THEN AfterLoop("balance_eof", "actions")
          ELSE UNCHANGED <<pc, mode, errors, errors_produced>>
    /\ UNCHANGED <<table, original_hash, table_cuml, repetitions, files, budget, loaded, pages, fatal>>
    /\ input' = NoInput
    /\ stdin' = Advanced(stdin)
    /\ UNCHANGED <<today, plots>>

BalanceConsume ==
    /\ ConsumeInput("balance_eof", "actions")
    /\ UNCHANGED <<table, original_hash, table_cuml, repetitions, files, budget, loaded, pages, fatal>>
    /\ input' = NoInput
    /\ stdin' = Advanced(stdin)
    /\ UNCHANGED <<today, plots>>

(***************************************************************************)
(* Action pass: pages of 'Ultimos Movimientos' ('fund_changes loop).       *)
(***************************************************************************)
\* A new iteration of 'fund_changes: a new page with its own repetitions.
NewPage ==
    /\ repetitions' = <<>>
    /\ page' = <<>>
    /\ pageStart' = table'

\* The page read so far joins the history, unless no row of it was merged.
Recorded(footer) ==
    IF page = <<>> THEN hist
    ELSE Append(hist, [rows |-> page, start |-> pageStart, after |-> table',
                       footer |-> footer])

\* break 'fund_changes: the pass ends at once, without the reconciliation and
\* without the check of the page's errors.
ActionBreak ==
    /\ Enter("values")
    /\ table' = table
    /\ hist' = Recorded(FALSE)
    /\ NewPage

ActionHeader ==
    /\ pc = "actions" /\ mode = "Header"
    /\ \E line \in read_line(ActionLines) :
          IF line.text = "Fecha\tNombre del "
          THEN /\ mode' = "Table"
               /\ UNCHANGED <<pc, errors, errors_produced, table, repetitions, pages>>
          ELSE IF line = EofLine
          THEN ActionBreak
          ELSE UNCHANGED <<pc, mode, errors, errors_produced, table, repetitions, pages>>
    /\ UNCHANGED <<original_hash, table_cuml, files, budget, loaded, fatal>>
    /\ input' = NoInput
    /\ stdin' = Advanced(stdin)
    /\ UNCHANGED <<today, plots>>

ActionTable ==
    /\ pc = "actions" /\ mode = "Table"
    /\ \E line \in read_line(ActionLines) :
          IF line.text = "\n"
          THEN /\ mode' = "Footer"
               /\ input' = NoInput
               /\ UNCHANGED <<pc, errors, errors_produced, table, repetitions, pages,
                              budget, fatal>>
          ELSE IF line = EofLine
          THEN /\ ActionBreak
               /\ input' = NoInput
               /\ UNCHANGED <<budget, fatal>>
          ELSE LET r == ActionRow(table, repetitions, CellsOf(line))
               IN  /\ stdin.open => budget > 0
                   /\ budget' = IF stdin.open THEN budget - 1 ELSE budget
                   /\ table' = r.table
                   /\ repetitions' = r.repetitions
                   /\ errors' = Messages(errors, r.msgs)
                   /\ errors_produced' = (errors_produced \/ r.msgs # <<>>)
                   /\ fatal' = (fatal \/ r.msgs # <<>>)
                   /\ page' = page \o r.merged
                   /\ input' = line
                   /\ UNCHANGED <<pc, mode, pageStart, hist>>
    /\ UNCHANGED <<original_hash, table_cuml, files, loaded>>
    /\ stdin' = Advanced(stdin)
    /\ UNCHANGED <<today, plots>>

\* The footer marker ends the page: the reconciliation, then the page's errors.
ActionFooter ==
    /\ pc = "actions" /\ mode = "Footer"
    /\ \E line \in read_line(ActionLines) :
          IF line.text = "que origina\n"
          THEN /\ table' = Reconcile(table, repetitions)
               /\ hist' = Recorded(TRUE)
               /\ NewPage
               /\ AfterLoop("actions_eof", "actions")
          ELSE IF line = EofLine
          THEN ActionBreak
          ELSE UNCHANGED <<pc, mode, errors, errors_produced, table, repetitions, pages>>
    /\ UNCHANGED <<original_hash, table_cuml, files, budget, loaded, fatal>>
    /\ input' = NoInput
    /\ stdin' = Advanced(stdin)
    /\ UNCHANGED <<today, plots>>

ActionConsume ==
    /\ ConsumeInput("actions_eof", "actions")
    /\ UNCHANGED <<table, original_hash, table_cuml, repetitions, files, budget, loaded, pages, fatal>>
    /\ input' = NoInput
    /\ stdin' = Advanced(stdin)
    /\ UNCHANGED <<today, plots>>

(***************************************************************************)
(* Fund and unit values pass (returns report).                             *)
(***************************************************************************)
\* A line read by the pass that is no payload of the mode: the mode may
\* advance to `then` on the marker `text`, and EOF ends the pass.
ValuesMarker(at, Lines, text, then) ==
    /\ pc = "values" /\ mode = at
    /\ \E line \in read_line(Lines) :
          IF line = EofLine
          THEN AfterLoop("values_eof", "save")
          ELSE IF text = "any" \/ line.text = text
          THEN mode' = then /\ UNCHANGED <<pc, errors, errors_produced>>
          ELSE UNCHANGED <<pc, mode, errors, errors_produced>>
    /\ UNCHANGED <<table, original_hash, repetitions, table_cuml, files, budget,
                   loaded, pages, fatal>>
    /\ input' = NoInput
    /\ stdin' = Advanced(stdin)
    /\ UNCHANGED <<today, plots>>

ValuesHeader ==
    /\ mode = "Header"
    /\ ValuesMarker("Header", ValueLines, "PORTAFOLIO \tFECHA", "SkipSubHeader")

ValuesSkipSubHeader ==
    /\ mode = "SkipSubHeader"
    /\ ValuesMarker("SkipSubHeader", ValueLines, "any", "Table")

\* Mutant of ValuesIntermission: the second header leads back to the first table.
ValuesIntermissionBack ==
    /\ mode = "Intermission"
    /\ ValuesMarker("Intermission", Value1Lines, "Diaria \t", "Table")

ValuesIntermission ==
    /\ mode = "Intermission"
    /\ ValuesMarker("Intermission", Value1Lines, "Diaria \t", "Table1")

ValuesFooter ==
    /\ pc = "values" /\ mode = "Footer"
    /\ \E line \in read_line(Value1Lines) :
          IF line.text = "    Estas rentabilidades" \/ line = EofLine
          THEN AfterLoop("values_eof", "save")
          ELSE UNCHANGED <<pc, mode, errors, errors_produced>>
    /\ UNCHANGED <<table, original_hash, repetitions, table_cuml, files, budget,
                   loaded, pages, fatal>>
    /\ input' = NoInput
    /\ stdin' = Advanced(stdin)
    /\ UNCHANGED <<today, plots>>

ValuesTable ==
    /\ pc = "values" /\ mode = "Table"
    /\ \E line \in read_line(ValueLines) :
          IF line.text = "VALOR TOTAL DEL FONDO "
          THEN /\ mode' = "Intermission"
               /\ input' = NoInput
               /\ UNCHANGED <<pc, errors, errors_produced, table, table_cuml, budget, fatal>>
          ELSE IF line = EofLine
          THEN /\ AfterLoop("values_eof", "save")
               /\ input' = NoInput
               /\ UNCHANGED <<table, table_cuml, budget, fatal>>
          ELSE LET r == ValueRow(table, table_cuml, CellsOf(line))
               IN  /\ stdin.open => budget > 0
                   /\ budget' = IF stdin.open THEN budget - 1 ELSE budget
                   /\ table' = r.table
                   /\ table_cuml' = r.table_cuml
                   /\ errors' = Messages(errors, r.msgs)
                   /\ errors_produced' = (errors_produced \/ r.is_error)
                   /\ fatal' = (fatal \/ r.is_error)
                   /\ input' = line
                   /\ UNCHANGED <<pc, mode>>
    /\ UNCHANGED <<original_hash, repetitions, files, loaded, pages>>
    /\ stdin' = Advanced(stdin)
    /\ UNCHANGED <<today, plots>>

ValuesTable1 ==
    /\ pc = "values" /\ mode = "Table1"
    /\ \E line \in read_line(Value1Lines) :
          IF line.text = "\n"
          THEN /\ mode' = "Footer"
               /\ input' = NoInput
               /\ UNCHANGED <<pc, errors, errors_produced, table_cuml, budget, fatal>>
          ELSE IF line = EofLine
          THEN /\ AfterLoop("values_eof", "save")
               /\ input' = NoInput
               /\ UNCHANGED <<table_cuml, budget, fatal>>
          ELSE LET r == Value1Row(table_cuml, CellsOf(line))
               IN  /\ stdin.open => budget > 0
                   /\ budget' = IF stdin.open THEN budget - 1 ELSE budget
                   /\ table_cuml' = r.table_cuml
                   /\ errors' = Messages(errors, r.msgs)
                   /\ errors_produced' = (errors_produced \/ r.is_error)
                   /\ fatal' = (fatal \/ r.is_error)
                   /\ input' = line
                   /\ UNCHANGED <<pc, mode>>
    /\ UNCHANGED <<table, original_hash, repetitions, files, loaded, pages>>
    /\ stdin' = Advanced(stdin)
    /\ UNCHANGED <<today, plots>>

ValuesConsume ==
    /\ ConsumeInput("values_eof", "save")
    /\ UNCHANGED <<table, original_hash, repetitions, table_cuml, files, budget,
                   loaded, pages, fatal>>
    /\ input' = NoInput
    /\ stdin' = Advanced(stdin)
    /\ UNCHANGED <<today, plots>>

(***************************************************************************)
(* The save of the table to funds.dat, one file-system call per step.      *)
(***************************************************************************)
\* The table is read-only from here on; only pc and the files change.
SaveFrame == UNCHANGED <<mode, table, original_hash, errors, errors_produced,
                         repetitions, table_cuml, budget, loaded, pages, fatal>>

\* Mutant of DataRemains: the comparison inverted.
DataRemainsInverted(hash, original) == hash # original

\* calculate_hash(&table) == original_hash: "Data remains the same."
DataRemains(hash, original) == hash = original

\* if the data remains { files remain unchanged } else { File::create(funds.new) }
SaveCheck ==
    /\ pc = "save"
    /\ IF DataRemains(calculate_hash(table), original_hash)
       THEN pc' = "figures" /\ UNCHANGED files
       ELSE pc' = "created" /\ newf' = Partial /\ UNCHANGED <<dat, backup>>
    /\ SaveFrame
    /\ input' = NoInput
    /\ UNCHANGED beyond

\* Mutant of SaveWrite: the table is not written before the renames.
SaveWriteSkipped ==
    /\ pc = "created"
    /\ pc' = "written"
    /\ UNCHANGED files
    /\ SaveFrame
    /\ input' = NoInput
    /\ UNCHANGED beyond

\* bincode::serialize_into(new_file, &table)
SaveWrite ==
    /\ pc = "created"
    /\ pc' = "written"
    /\ newf' = FileOf(table)
    /\ UNCHANGED <<dat, backup>>
    /\ SaveFrame
    /\ input' = NoInput
    /\ UNCHANGED beyond

\* Mutant of SaveBackup: the old funds.dat is removed, not renamed.
SaveBackupRemoves ==
    /\ pc = "written"
    /\ pc' = "backed"
    /\ dat' = NoFile
    /\ UNCHANGED <<newf, backup>>
    /\ SaveFrame
    /\ input' = NoInput
    /\ UNCHANGED beyond

\* if db_path.exists() { fs::rename(db_path, backup) }
SaveBackup ==
    /\ pc = "written"
    /\ pc' = "backed"
    /\ IF dat.exists
       THEN backup' = dat /\ dat' = NoFile
       ELSE UNCHANGED <<dat, backup>>
    /\ UNCHANGED newf
    /\ SaveFrame
    /\ input' = NoInput
    /\ UNCHANGED beyond

\* fs::rename(new_path, db_path)
SaveRename ==
    /\ pc = "backed"
    /\ pc' = "figures"
    /\ dat' = newf
    /\ newf' = NoFile
    /\ UNCHANGED backup
    /\ SaveFrame
    /\ input' = NoInput
    /\ UNCHANGED beyond

\* The process stops within the save: before, between or after its calls.
Crash ==
    /\ pc \in {"created", "written", "backed"}
    /\ pc' = "crashed"
    /\ UNCHANGED files
    /\ SaveFrame
    /\ input' = NoInput
    /\ UNCHANGED beyond

Next ==
    \/ BalanceHeader \/ BalanceTable \/ BalanceFooter \/ BalanceConsume
    \/ ActionHeader \/ ActionTable \/ ActionFooter \/ ActionConsume
    \/ ValuesHeader \/ ValuesSkipSubHeader \/ ValuesTable \/ ValuesIntermission
    \/ ValuesTable1 \/ ValuesFooter \/ ValuesConsume
    \/ SaveCheck \/ SaveWrite \/ SaveBackup \/ SaveRename \/ Crash

Spec == Init /\ [][Next]_vars

\* The action pass alone, from the table as loaded (an account status of
\* the single line EOF leaves the table as loaded).
InitPages == \E t \in LoadedTables : InitOf(t, "actions", MaxPageRows)

NextPages == ActionHeader \/ ActionTable \/ ActionFooter \/ ActionConsume

SpecPages == InitPages /\ [][NextPages]_vars

(***************************************************************************)
(* The balance pass and its consume_input() read from a finite stream: a   *)
(* file or a pipe in place of the terminal.  The loop of main() never      *)
(* waits, so a step that can be taken is taken.                            *)
(***************************************************************************)
MaxStream == 3

StreamLines ==
    {Marker("Anual**\n"), Marker("Total\t"), Marker("Aprenda\n"), EofLine,
     Payload(<<FundA, Money1>>), Payload(<<FundB>>)}

RECURSIVE StreamsOf(_)
StreamsOf(n) ==
    IF n = 0 THEN {<<>>}
    ELSE StreamsOf(n - 1)
         \cup {Append(s, line) : s \in {x \in StreamsOf(n - 1) : Len(x) = n - 1},
                                 line \in StreamLines}

InitStream == \E s \in StreamsOf(MaxStream) : InitFrom(<<>>, "balance", 0, date, Stream(s))

NextStream == BalanceHeader \/ BalanceTable \/ BalanceFooter \/ BalanceConsume

SpecStream == InitStream /\ [][NextStream]_vars /\ WF_vars(NextStream)

(***************************************************************************)
(* The balance of one row, from the text of its money cell to the cents    *)
(* stored: a report of one row read from a stream.                         *)
(***************************************************************************)
DigitChar(d) == CHOOSE c \in Digits : DigitVal(c) = d

RECURSIVE DigitsOf(_)
DigitsOf(n) == IF n < 10 THEN <<DigitChar(n)>> ELSE DigitsOf(n \div 10) \o <<DigitChar(n % 10)>>

\* Digits in groups of three from the right, with commas between the groups.
RECURSIVE Grouped(_)
Grouped(ds) ==
    IF Len(ds) <= 3 THEN ds
    ELSE Grouped(SubSeq(ds, 1, Len(ds) - 3)) \o <<",">> \o SubSeq(ds, Len(ds) - 2, Len(ds))

\* A money cell as the bank writes it: "$", the units grouped, ".", two digits.
Formatted(c) ==
    <<"$">> \o Grouped(DigitsOf(c \div 100)) \o <<".">>
    \o <<DigitChar((c % 100) \div 10), DigitChar(c % 10)>>

\* The amounts read: the small ones, and those from $1,024.00 to $1,024.99.
MoneyCents == (0..MaxCents) \cup (102400..102499)

\* Money cells that are not as the bank writes them.
LooseFields ==
    {<<"1", ".", "0", "0">>,
     <<"$", ",", "1", ".", "0", "0">>,
     <<"$", "1", ",", "0", ".", "0", "0">>,
     <<"$", "1", ".", "0">>,
     <<"$", "1", ".", "0", "0", "0">>,
     <<"$", "1", "0", "2", "4", ".", "0", "0">>,
     <<"$", ",", "2", "1", "1", ",", "2", "3", "1", ".", "7", "4">>,
     <<"$", "1", ",", "2", ",", "1", ",", "2", "3", "1", ".", "7", "4">>,
     <<"$", "1", ",", "2", "1", "1", ",", "2", "3", "1", ".", "7">>,
     <<"$", "x">>}

MoneyFields == {Formatted(c) : c \in MoneyCents} \cup LooseFields

\* The account status with one row of fund a.
MoneyReport(field) == <<Marker("Anual**\n"), Payload(<<FundA, field>>), EofLine>>

InitMoney ==
    \E field \in MoneyFields : InitFrom(<<>>, "balance", 0, date, Stream(MoneyReport(field)))

NextMoney == BalanceHeader \/ BalanceTable

SpecMoney == InitMoney /\ [][NextMoney]_vars

(***************************************************************************)
(* The first figure (fondos00.png): the filtered and sorted copy of the    *)
(* table, and for each duration the consolidated figures and the variation *)
(* of each fund.  An f64 that is a quotient is kept as the exact fraction  *)
(* it is nearest to, or as NaN or an infinity.                             *)
(***************************************************************************)
durations == <<7, 15, 30, 70>>

RECURSIVE SeqMax(_)
SeqMax(s) == IF Len(s) = 1 THEN s[1] ELSE Max(s[1], SeqMax(Tail(s)))

\* The least chrono::NaiveDate (1 January -262144) as a day number; 1 January
\* 2021 is day 1.
NaiveDateMin == 0 - 96484286

None == [ok |-> FALSE, date |-> 0]

\* NaiveDate::checked_sub_signed(Duration::days(days)): None below the calendar.
checked_sub_signed(d, days) ==
    IF d - days < NaiveDateMin THEN None ELSE [ok |-> TRUE, date |-> d - days]

\* .iter().filter(|r| r.date >= minimum_date).cloned().collect()
FilterFrom(s, minimum_date) == SelectSeq(s, LAMBDA r : r.date >= minimum_date)

\* The records left in the order they are stored in.
Unsorted(s) == {s}

\* sort_unstable_by(|r1, r2| r1.date.cmp(&r2.date)): the orders of the records
\* by date; records of one date may come out in any order.
SortedByDate(s) ==
    {p \in {[i \in 1..Len(s) |-> s[f[i]]] : f \in Permutations(1..Len(s))} :
       \A i \in 1..(Len(p) - 1) : p[i].date <= p[i + 1].date}

\* The copies of the table the figures may be drawn from.
RECURSIVE FigureCopies(_, _)
FigureCopies(t, minimum_date) ==
    IF t = <<>> THEN {<<>>}
    ELSE {<<NewSeries(Head(t).fund, b, a, f)>> \o rest :
            b \in SortedByDate(FilterFrom(Head(t).balance, minimum_date)),
            a \in SortedByDate(FilterFrom(Head(t).action, minimum_date)),
            f \in SortedByDate(FilterFrom(Head(t).fund_value, minimum_date)),
            rest \in FigureCopies(Tail(t), minimum_date)}

\* .skip_while(|r| r.date < d): the list from its first record not before d.
RECURSIVE SkipBefore(_, _)
SkipBefore(s, d) ==
    IF s # <<>> /\ Head(s).date < d THEN SkipBefore(Tail(s), d) ELSE s

\* .map(|a| a.change).sum::<i64>()
RECURSIVE SumChanges(_)
SumChanges(s) == IF s = <<>> THEN 0 ELSE Head(s).change + SumChanges(Tail(s))

\* What a Series adds to (accum_balance, accum_investment); i is the place of
\* its first balance not before the start of the window, 0 when it has none.
Contribution(series, i) ==
    IF i = 0 THEN [balance |-> 0, investment |-> 0]
    ELSE [balance    |-> series.balance[Len(series.balance)].balance,
          investment |-> series.balance[i].balance
                         + SumChanges(SkipBefore(series.action, series.balance[i].date))]

AddFigures(x, y) ==
    [balance |-> x.balance + y.balance, investment |-> x.investment + y.investment]

\* The fold giving (consolidated_balance_i, consolidated_investment_i).
RECURSIVE Consolidated(_, _)
Consolidated(t, start) ==
    IF t = <<>> THEN [balance |-> 0, investment |-> 0]
    ELSE AddFigures(
           Contribution(Head(t),
                        position([n \in 1..Len(Head(t).balance) |->
                                    Head(t).balance[n].date >= start])),
           Consolidated(Tail(t), start))

Abs(n) == IF n < 0 THEN 0 - n ELSE n

RECURSIVE GCD(_, _)
GCD(a, b) == IF b = 0 THEN a ELSE GCD(b, a % b)

NaN == [kind |-> "NaN", num |-> 0, den |-> 1]
Infinity(sign) == [kind |-> "inf", num |-> sign, den |-> 1]

\* The fraction n / d (d > 0) in lowest terms; g is the divisor of both.
Lowest(n, d, g) == [kind |-> "finite", num |-> n \div g, den |-> d \div g]

Fraction(n, d) ==
    IF d < 0 THEN Lowest(0 - n, 0 - d, GCD(Abs(n), Abs(d)))
    ELSE Lowest(n, d, GCD(Abs(n), Abs(d)))

\* The difference n - d, an amount of money, in place of the percentage.
VariationInMoney(n, d) == Fraction(n - d, 1)

\* 100.0 * n as f64 / d - 100.0
Variation(n, d) ==
    IF d = 0
    THEN (IF n = 0 THEN NaN ELSE Infinity(IF n < 0 THEN -1 ELSE 1))
    ELSE Fraction(100 * (n - d), d)

\* v1.abs() > v2.abs(): false when either is NaN.
AbsGreater(v1, v2) ==
    IF v1.kind = "NaN" \/ v2.kind = "NaN" THEN FALSE
    ELSE IF v1.kind = "inf" THEN v2.kind # "inf"
    ELSE IF v2.kind = "inf" THEN FALSE
    ELSE Abs(v1.num) * v2.den > Abs(v2.num) * v1.den

\* Mutant of Emitted: the value of the larger magnitude.
EmittedLarger(variation1, variation2) ==
    IF AbsGreater(variation1, variation2) THEN variation1 ELSE variation2

\* if variation1.abs() > variation2.abs() { variation2 } else { variation1 }
Emitted(variation1, variation2) ==
    IF AbsGreater(variation1, variation2) THEN variation2 ELSE variation1

\* Mutant of Consume: the actions of the date of b are consumed as well.
RECURSIVE ConsumeThrough(_, _, _, _)
ConsumeThrough(actions, b_date, running_balance, adjusted_current_balance) ==
    IF actions # <<>> /\ Head(actions).date <= b_date
    THEN ConsumeThrough(Tail(actions), b_date, running_balance + Head(actions).change,
                        adjusted_current_balance - Head(actions).change)
    ELSE [actions |-> actions, running_balance |-> running_balance,
          adjusted_current_balance |-> adjusted_current_balance]

\* while let Some(action) = action_iter.peek(): the actions before the date of
\* b are consumed into the running balance and out of the current balance.
RECURSIVE Consume(_, _, _, _)
Consume(actions, b_date, running_balance, adjusted_current_balance) ==
    IF actions # <<>> /\ Head(actions).date < b_date
    THEN Consume(Tail(actions), b_date, running_balance + Head(actions).change,
                 adjusted_current_balance - Head(actions).change)
    ELSE [actions |-> actions, running_balance |-> running_balance,
          adjusted_current_balance |-> adjusted_current_balance]

RECURSIVE Scan(_, _, _)
\* The point emitted for the balance b, and the scan of the balances after it.
ScanStep(balances, unadjusted_running_balance, c) ==
    <<[date  |-> Head(balances).date,
       value |-> Emitted(Variation(c.adjusted_current_balance,
                                   unadjusted_running_balance),
                         Variation(Head(balances).balance, c.running_balance))]>>
    \o Scan(Tail(balances), c.actions, c.running_balance)

\* balance_iter.scan(initial_balance_f64, |running_balance, b| ..)
Scan(balances, actions, running_balance) ==
    IF balances = <<>> THEN <<>>
    ELSE ScanStep(balances, running_balance,
                  Consume(actions, Head(balances).date, running_balance,
                          Head(balances).balance))

\* The variation of a fund from its balances not before the start of the window.
VariationFrom(balance_iter, action) ==
    Scan(balance_iter, SkipBefore(action, Head(balance_iter).date),
         Head(balance_iter).balance)

\* The state of the closure of the scan after each balance b: the actions
\* action_iter.next() has consumed so far, and *running_balance.
RECURSIVE Walk(_, _, _, _)
Walk(balances, actions, running_balance, consumed) ==
    IF balances = <<>> THEN <<>>
    ELSE <<[b |-> Head(balances),
            consumed |-> consumed \o SubSeq(actions, 1,
                Len(actions) - Len(Consume(actions, Head(balances).date,
                                           running_balance, 0).actions)),
            running_balance |-> Consume(actions, Head(balances).date,
                                        running_balance, 0).running_balance]>>
         \o Walk(Tail(balances),
                 Consume(actions, Head(balances).date, running_balance, 0).actions,
                 Consume(actions, Head(balances).date, running_balance, 0).running_balance,
                 consumed \o SubSeq(actions, 1,
                     Len(actions) - Len(Consume(actions, Head(balances).date,
                                                running_balance, 0).actions)))

\* The walk of a fund from its balances not before the start of the window.
WalkFrom(balance_iter, action) ==
    IF balance_iter = <<>> THEN <<>>
    ELSE Walk(balance_iter, SkipBefore(action, Head(balance_iter).date),
              Head(balance_iter).balance, <<>>)

\* String::to_lowercase of a fund name.
to_lowercase(fund) == [i \in 1..Len(fund) |-> Lower(fund[i])]

PlotSeries(series, start) ==
    [fund |-> to_lowercase(series.fund),
     variation |-> VariationFrom(SkipBefore(series.balance, start), series.action)]

\* The PlotSeries of the Series that have a balance not before the start.
RECURSIVE series_vec(_, _)
series_vec(t, start) ==
    IF t = <<>> THEN <<>>
    ELSE (IF \E n \in 1..Len(Head(t).balance) : Head(t).balance[n].date >= start
          THEN <<PlotSeries(Head(t), start)>> ELSE <<>>)
         \o series_vec(Tail(t), start)

\* The values of all the series, flattened.
RECURSIVE Flattened(_)
Flattened(sv) ==
    IF sv = <<>> THEN <<>>
    ELSE [i \in 1..Len(Head(sv).variation) |-> Head(sv).variation[i].value]
         \o Flattened(Tail(sv))

\* min_by(|a, b| a.partial_cmp(&b).unwrap()) panics when two or more values
\* are compared and one of them is NaN.
ComparisonPanics(values) ==
    Len(values) >= 2 /\ \E i \in 1..Len(values) : values[i].kind = "NaN"

\* The number of colours of color_vec.
NumColors == 20

\* color_vec[index] of for (index, series) in series_vec.iter().enumerate():
\* the index is out of bounds from the 21st series on.
IndexPanics(sv) == Len(sv) > NumColors

\* consolidated_variation is consolidated_balance_i as f64 / 100.0 less
\* consolidated_investment_i as f64 / 100.0.
Window(duration, figures, sv) ==
    [duration |-> duration, skipped |-> FALSE,
     consolidated_balance_i |-> figures.balance,
     consolidated_investment_i |-> figures.investment,
     consolidated_variation |-> Fraction(figures.balance - figures.investment, 100),
     series_vec |-> sv]

\* The window of a duration that cannot be subtracted from the date.
SkippedWindow(duration) ==
    [duration |-> duration, skipped |-> TRUE, consolidated_balance_i |-> 0,
     consolidated_investment_i |-> 0, consolidated_variation |-> Fraction(0, 100),
     series_vec |-> <<>>]

\* The ledgers the figures are drawn from in SpecFigures: a fund with some
\* balances and actions, alone or next to a second fund.
FigureBalances ==
    {<<>>,
     <<[date |-> 3, balance |-> 100000], [date |-> 5, balance |-> 115000]>>,
     <<[date |-> 5, balance |-> 115000], [date |-> 3, balance |-> 100000]>>,
     <<[date |-> -61, balance |-> 300], [date |-> 8, balance |-> 100]>>,
     <<[date |-> 4, balance |-> 0]>>,
     <<[date |-> -5, balance |-> 500]>>,
     <<[date |-> -10, balance |-> 0], [date |-> 6, balance |-> 200]>>}

FigureActions ==
    {<<>>,
     <<[date |-> 4, change |-> 10000]>>,
     <<[date |-> 4, change |-> -10000]>>,
     <<[date |-> 4, change |-> 100], [date |-> 2, change |-> 50]>>,
     <<[date |-> 7, change |-> 100], [date |-> 7, change |-> -100],
       [date |-> -61, change |-> 10]>>}

FigureLedgers ==
    {<<NewSeries(FundA, b, a, <<>>)>> : b \in FigureBalances, a \in FigureActions}
    \cup {<<NewSeries(FundB, <<[date |-> 9, balance |-> 700]>>,
                      <<[date |-> 9, change |-> 50]>>, <<>>),
            NewSeries(FundA, b, <<[date |-> 4, change |-> 10000]>>, <<>>)>> :
            b \in FigureBalances}

\* The dates the clock may read: the date of the run, and two dates of the
\* first weeks of the calendar.
Clocks == {date, NaiveDateMin + 7, NaiveDateMin + 69}

\* Mutant of FiguresFilter: the filtered copy is written over funds.dat.
FiguresFilterSaves ==
    /\ pc = "figures"
    /\ checked_sub_signed(today, SeqMax(durations)).ok
    /\ pc' = "windows"
    /\ table' \in FigureCopies(table, checked_sub_signed(today, SeqMax(durations)).date)
    /\ dat' = FileOf(table')
    /\ UNCHANGED <<mode, original_hash, errors, errors_produced, repetitions,
                   table_cuml, newf, backup, budget, loaded, pages, fatal, input, beyond>>

\* let minimum_date = date.checked_sub_signed(max_duration).unwrap(); the table
\* is then shadowed by its filtered and sorted copy.
FiguresFilter ==
    /\ pc = "figures"
    /\ IF checked_sub_signed(today, SeqMax(durations)).ok
       THEN /\ pc' = "windows"
            /\ table' \in FigureCopies(table,
                                       checked_sub_signed(today, SeqMax(durations)).date)
       ELSE /\ pc' = "panicked"
            /\ table' = table
    /\ UNCHANGED <<mode, original_hash, errors, errors_produced, repetitions,
                   table_cuml, files, budget, loaded, pages, fatal, input, beyond>>

\* The window drawn from the start date: the consolidated figures and the
\* series, unless the comparison of the values panics.
WindowDrawn(duration, start, sv) ==
    IF ComparisonPanics(Flattened(sv)) \/ IndexPanics(sv)
    THEN pc' = "panicked" /\ plots' = plots
    ELSE /\ plots' = Append(plots, Window(duration, Consolidated(table, start), sv))
         /\ pc' = IF Len(plots) + 1 = Len(durations) THEN "drawn" ELSE "windows"

WindowOf(duration, start) ==
    IF start.ok
    THEN WindowDrawn(duration, start.date, series_vec(table, start.date))
    ELSE /\ plots' = Append(plots, SkippedWindow(duration))
         /\ pc' = IF Len(plots) + 1 = Len(durations) THEN "drawn" ELSE "windows"

\* One pass of the for_each over the durations.
FiguresWindow ==
    /\ pc = "windows"
    /\ WindowOf(durations[Len(plots) + 1],
                checked_sub_signed(today, durations[Len(plots) + 1]))
    /\ UNCHANGED <<mode, table, original_hash, errors, errors_produced, repetitions,
                   table_cuml, files, budget, loaded, pages, fatal, input, stdin, today>>

\* A whole run on a ledger with records of many dates: an account status with
\* one row of fund a, no page of actions, no returns report, then the save
\* and the first figure.
RunReport(money) ==
    <<Marker("Anual**\n"), Payload(<<FundA, money>>), EofLine, EofLine, EofLine>>

InitRun ==
    \E t \in FigureLedgers, money \in {Money1, Money2} :
       InitFrom(t, "balance", 0, date, Stream(RunReport(money)))

NextRun ==
    \/ BalanceHeader \/ BalanceTable \/ ActionHeader \/ ValuesHeader
    \/ SaveCheck \/ SaveWrite \/ SaveBackup \/ SaveRename
    \/ FiguresFilter \/ FiguresWindow

SpecRun == InitRun /\ [][NextRun]_vars

\* Runs that read the same lines from a stream and differ in the balance
\* funds.dat holds for the date of the run: an account status with one row of
\* fund a, a page of actions with one row, then the first sub-table of a
\* returns report with one row, or no returns report.
WarnRows ==
    {<<Day1, FundA, "Aporte", "t", Money1>>,
     <<Day2, FundA, "Aporte por traslado de otro portafolio", "t", Money1>>,
     <<Day1, FundA2, "Aporte por traslado a otro portafolio", "t", Money1>>,
     <<Day1, FundB, "Retiro parcial", "t", Money1>>}

WarnValueRow == ValueCells(FundA, <<1, 1, 21>>, Money1, Roe(<<"2">>, "% EA\n"))

WarnReports(money, row, returns) ==
    <<Marker("Anual**\n"), Payload(<<FundA, money>>), Marker("Total\t"),
      Marker("Aprenda\n"),
      Marker("Fecha\tNombre del "), Payload(row), Marker("\n"),
      Marker("que origina\n"), EofLine>>
    \o (IF returns
        THEN <<Marker("PORTAFOLIO \tFECHA"), Marker("PORTAFOLIO \tFECHA"),
               Payload(WarnValueRow), EofLine>>
        ELSE <<EofLine>>)
    \o <<EofLine, EofLine>>

WarnLedger(balance) ==
    <<NewSeries(FundA, <<[date |-> date, balance |-> balance]>>, <<>>, <<>>)>>

\* A stream that keeps, for the comparison of the runs, the lines it offered.
StreamKept(lines) == [open |-> FALSE, lines |-> lines, reads |-> 0, offered |-> lines]

InitWarn ==
    \E stored \in {100, 200}, money \in {Money1, Money2}, row \in WarnRows,
       returns \in BOOLEAN :
       InitFrom(WarnLedger(stored), "balance", 0, date,
                StreamKept(WarnReports(money, row, returns)))

NextWarn ==
    \/ BalanceHeader \/ BalanceTable \/ BalanceFooter \/ BalanceConsume
    \/ ActionHeader \/ ActionTable \/ ActionFooter
    \/ ValuesHeader \/ ValuesSkipSubHeader \/ ValuesTable
    \/ SaveCheck \/ SaveWrite \/ SaveBackup \/ SaveRename

SpecWarn == InitWarn /\ [][NextWarn]_vars

\* The figures alone, from a ledger and a date of the clock.
InitFigures == \E t \in FigureLedgers, clock \in Clocks : InitAt(t, "figures", 0, clock)

NextFigures == FiguresFilter \/ FiguresWindow

SpecFigures == InitFigures /\ [][NextFigures]_vars

(***************************************************************************)
(* The second figure, fondos01.png: the unit value of every fund as a      *)
(* percentage of its first unit value of the window.                       *)
(***************************************************************************)
\* balance_iter.map(|b| 100.0 * b.unit_value as f64 / initial_balance_f64 - 100.0)
UnitVariation(balance_iter) ==
    [i \in 1..Len(balance_iter) |->
        [date  |-> balance_iter[i].date,
         value |-> Variation(balance_iter[i].unit_value, balance_iter[1].unit_value)]]

\* The PlotSeries of the Series that have a fund_value and a balance not
\* before the start.
RECURSIVE unit_series_vec(_, _)
unit_series_vec(t, start) ==
    IF t = <<>> THEN <<>>
    ELSE (IF /\ \E n \in 1..Len(Head(t).fund_value) : Head(t).fund_value[n].date >= start
             /\ \E n \in 1..Len(Head(t).balance) : Head(t).balance[n].date >= start
          THEN <<[fund |-> to_lowercase(Head(t).fund),
                  variation |-> UnitVariation(SkipBefore(Head(t).fund_value, start))]>>
          ELSE <<>>)
         \o unit_series_vec(Tail(t), start)

\* One window of the second figure; plots holds the windows of the first
\* figure, then those of the second.
UnitsDrawn(duration, start, sv, last) ==
    IF start.ok /\ (ComparisonPanics(Flattened(sv)) \/ IndexPanics(sv))
    THEN pc' = "panicked" /\ plots' = plots
    ELSE /\ plots' = Append(plots, [duration |-> duration, skipped |-> ~start.ok,
                                    figure |-> "fondos01.png",
                                    series_vec |-> IF start.ok THEN sv ELSE <<>>])
         /\ pc' = IF last THEN "drawn1" ELSE "units"

UnitsWindow ==
    /\ pc \in {"drawn", "units"}
    /\ UnitsDrawn(durations[Len(plots) - Len(durations) + 1],
                  checked_sub_signed(today, durations[Len(plots) - Len(durations) + 1]),
                  unit_series_vec(table,
                      checked_sub_signed(today,
                          durations[Len(plots) - Len(durations) + 1]).date),
                  Len(plots) + 1 = 2 * Len(durations))
    /\ UNCHANGED <<mode, table, original_hash, errors, errors_produced, repetitions,
                   table_cuml, files, budget, loaded, pages, fatal, input, stdin, today>>

\* The ledgers of SpecUnits: a fund with fund values, with or without
\* balances in the windows, alone or after a fund that has balances only.
UnitValues ==
    {<<>>,
     <<[date |-> 3, fund_value |-> 900, unit_value |-> 100],
       [date |-> 5, fund_value |-> 900, unit_value |-> 110]>>,
     <<[date |-> 5, fund_value |-> 900, unit_value |-> 110],
       [date |-> 3, fund_value |-> 900, unit_value |-> 100]>>,
     <<[date |-> -61, fund_value |-> 900, unit_value |-> 100],
       [date |-> 8, fund_value |-> 900, unit_value |-> 120]>>,
     <<[date |-> 4, fund_value |-> 0, unit_value |-> 0],
       [date |-> 6, fund_value |-> 0, unit_value |-> 0]>>,
     <<[date |-> 4, fund_value |-> 0, unit_value |-> 0],
       [date |-> 6, fund_value |-> 900, unit_value |-> 50]>>}

UnitBalances ==
    {<<>>,
     <<[date |-> 3, balance |-> 100000], [date |-> 5, balance |-> 115000]>>,
     <<[date |-> -5, balance |-> 500]>>}

\* One fund more than there are colours, each with a balance of day 9.
Crowd ==
    [n \in 1..(NumColors + 1) |->
        NewSeries([i \in 1..n |-> "a"], <<[date |-> 9, balance |-> 700]>>, <<>>, <<>>)]

UnitLedgers ==
    {Crowd}
    \cup {<<NewSeries(FundA, b, <<>>, f)>> : b \in UnitBalances, f \in UnitValues}
    \cup {<<NewSeries(FundB, <<[date |-> 9, balance |-> 700]>>, <<>>, <<>>),
            NewSeries(FundA, b, <<>>, f)>> : b \in UnitBalances, f \in UnitValues}

InitUnits == \E t \in UnitLedgers, clock \in Clocks : InitAt(t, "figures", 0, clock)

NextUnits == FiguresFilter \/ FiguresWindow \/ UnitsWindow

SpecUnits == InitUnits /\ [][NextUnits]_vars

(***************************************************************************)
(* Claims about the action pass.                                           *)
(***************************************************************************)
\* The records of fund with the signature (d, change) stored in table t.
CountIn(t, fund, d, change) ==
    LET i == position([n \in 1..Len(t) |-> t[n].fund = fund])
    IN  IF i = 0 THEN 0
        ELSE Cardinality({k \in 1..Len(t[i].action) : SameAction(t[i].action[k], d, change)})

\* The rows of a page with that fund and signature.
Occurs(rows, fund, d, change) ==
    Cardinality({k \in 1..Len(rows) :
                   rows[k] = [fund |-> fund, date |-> d, change |-> change]})

RowsOf(rows) == {rows[k] : k \in 1..Len(rows)}

\* The fund and signature of every action stored in t.
StoredIn(t) ==
    UNION {{[fund |-> t[i].fund, date |-> t[i].action[k].date,
             change |-> t[i].action[k].change] : k \in 1..Len(t[i].action)} :
           i \in 1..Len(t)}

\* Two tables store the same multiset of actions for every fund.
SameActions(t1, t2) ==
    \A g \in StoredIn(t1) \cup StoredIn(t2) :
        CountIn(t1, g.fund, g.date, g.change) = CountIn(t2, g.fund, g.date, g.change)

\* A whole page: its rows merged in order, then the reconciliation.
RECURSIVE MergeRows(_, _, _)
MergeRows(t, reps, rows) ==
    IF rows = <<>> THEN [table |-> t, repetitions |-> reps]
    ELSE LET r == ActionMerge(t, reps, Head(rows).fund, Head(rows).date, Head(rows).change)
         IN  MergeRows(r.table, r.repetitions, Tail(rows))

IngestPage(t, rows) ==
    LET m == MergeRows(t, <<>>, rows) IN Reconcile(m.table, m.repetitions)

Footered == {i \in 1..Len(hist) : hist[i].footer}

\* C1 (as claimed): a signature with no stored record that occurs k times in a
\* page is stored exactly k times after the page's reconciliation, and still
\* exactly k times after the same page is ingested again.
C1_Multiplicity ==
    \A i \in Footered : \A g \in RowsOf(hist[i].rows) :
        CountIn(hist[i].start, g.fund, g.date, g.change) = 0
        => /\ CountIn(hist[i].after, g.fund, g.date, g.change)
                = Occurs(hist[i].rows, g.fund, g.date, g.change)
           /\ (i + 1 \in Footered /\ hist[i + 1].rows = hist[i].rows)
                => CountIn(hist[i + 1].after, g.fund, g.date, g.change)
                     = Occurs(hist[i].rows, g.fund, g.date, g.change)

\* C2 (as claimed): ingesting a page twice in sequence stores the same
\* multiset of actions per fund as ingesting it once.
C2_Idempotence ==
    \A i \in Footered :
        (i + 1 \in Footered /\ hist[i + 1].rows = hist[i].rows)
        => SameActions(hist[i + 1].after, hist[i].after)

DatesOf(rows) == {rows[k].date : k \in 1..Len(rows)}

\* Two consecutive pages ended by their footers whose dates are disjoint.
DisjointPair(i) ==
    /\ i \in Footered /\ i + 1 \in Footered
    /\ DatesOf(hist[i].rows) \cap DatesOf(hist[i + 1].rows) = {}

\* C3: two pages with disjoint dates, ingested one after the other, store for
\* every fund the same multiset of actions as the single page made of the rows
\* of the first followed by the rows of the second.
C3_Additivity ==
    \A i \in 1..Len(hist) :
        DisjointPair(i)
        => SameActions(hist[i + 1].after,
                       IngestPage(hist[i].start, hist[i].rows \o hist[i + 1].rows))

\* Two pages with disjoint dates were ingested, each counting a repetition.
C3_Witness ==
    \E i \in 1..Len(hist) :
        /\ DisjointPair(i)
        /\ \E g \in RowsOf(hist[i].rows) :
             Occurs(hist[i].rows, g.fund, g.date, g.change) >= 2
        /\ \E g \in RowsOf(hist[i + 1].rows) :
             CountIn(hist[i].start, g.fund, g.date, g.change) >= 1

\* The largest number of times a signature occurred within one page.
RECURSIVE MaxOccurs(_, _, _, _)
MaxOccurs(h, fund, d, change) ==
    IF h = <<>> THEN 0
    ELSE Max(Occurs(Head(h).rows, fund, d, change), MaxOccurs(Tail(h), fund, d, change))

\* C4: the stored count of a signature never exceeds the larger of its count
\* in the loaded ledger and its largest number of occurrences in one page.
C4_NoOverCount ==
    \A g \in StoredIn(table) :
        CountIn(table, g.fund, g.date, g.change)
          <= Max(CountIn(loaded, g.fund, g.date, g.change),
                 Max(Occurs(page, g.fund, g.date, g.change),
                     MaxOccurs(hist, g.fund, g.date, g.change)))

\* A page counted a signature more often than it was stored, and clones
\* were appended.
C4_Witness ==
    \E i \in Footered : \E g \in RowsOf(hist[i].rows) :
        /\ CountIn(hist[i].start, g.fund, g.date, g.change) >= 1
        /\ CountIn(table, g.fund, g.date, g.change)
             > CountIn(hist[i].start, g.fund, g.date, g.change)
        /\ page = <<>>

\* C5: a signature stored C0 >= 1 times before a page that contains it k times
\* is stored exactly max(C0, k) times after the page's reconciliation.
C5_FillUp ==
    \A i \in Footered : \A g \in RowsOf(hist[i].rows) :
        LET C0 == CountIn(hist[i].start, g.fund, g.date, g.change)
            k  == Occurs(hist[i].rows, g.fund, g.date, g.change)
        IN  C0 >= 1 => CountIn(hist[i].after, g.fund, g.date, g.change) = Max(C0, k)

\* Both cases happened: a page with k > C0 >= 1 and a page with 1 <= k < C0.
C5_Witness ==
    /\ \E i \in Footered : \E g \in RowsOf(hist[i].rows) :
         LET C0 == CountIn(hist[i].start, g.fund, g.date, g.change)
         IN  C0 >= 1 /\ Occurs(hist[i].rows, g.fund, g.date, g.change) > C0
    /\ \E i \in Footered : \E g \in RowsOf(hist[i].rows) :
         LET C0 == CountIn(hist[i].start, g.fund, g.date, g.change)
         IN  C0 >= 2 /\ Occurs(hist[i].rows, g.fund, g.date, g.change) < C0

(***************************************************************************)
(* Claims about the whole run.                                             *)
(***************************************************************************)
\* The files are as the run found them.
FilesUntouched ==
    /\ newf = NoFile
    /\ backup = NoFile
    /\ dat = (IF loaded = <<>> THEN NoFile ELSE FileOf(loaded))

\* C6 (as claimed): once a row of any pass produced a fatal error, the run
\* writes no temporary file, creates no backup and does not replace funds.dat.
C6_NoPersistOnFatal == fatal => FilesUntouched

\* C7: when the table after the three passes equals the table as loaded, the
\* run writes no file: no funds.new, no backup, funds.dat untouched.
C7_NoWriteWhenUnchanged == (table = loaded) => FilesUntouched

\* Rows were pasted that changed nothing, and the save was passed.
C7_Witness ==
    /\ pc = "figures"
    /\ table = loaded
    /\ hist # <<>>
    /\ budget = 0
    /\ ~fatal

\* C8: whenever the run found a funds.dat, its complete contents are in
\* funds.dat or in the backup file, at every point of the save and after a stop.
C8_PreviousSnapshotKept ==
    loaded # <<>> => (dat = FileOf(loaded) \/ backup = FileOf(loaded))

\* The process stopped between the two renames.
C8_BetweenRenames ==
    /\ pc = "crashed"
    /\ ~dat.exists
    /\ newf = FileOf(table)
    /\ backup = FileOf(loaded)

\* No two balance records and no two fund_value records of a Series share a date.
UniqueDates(t) ==
    \A i \in 1..Len(t) :
        /\ \A j, k \in 1..Len(t[i].balance) :
               t[i].balance[j].date = t[i].balance[k].date => j = k
        /\ \A j, k \in 1..Len(t[i].fund_value) :
               t[i].fund_value[j].date = t[i].fund_value[k].date => j = k

\* C9: if no Series of the loaded ledger has two balance records or two
\* fund_value records of one date, no Series of the table ever has.
C9_OneRecordPerDate == UniqueDates(loaded) => UniqueDates(table)

\* A balance row and a fund-value row each met a record of their date and
\* overwrote it.
C9_Overwritten ==
    /\ loaded = Loaded2
    /\ UniqueDates(loaded)
    /\ table[2].balance = <<[date |-> date, balance |-> 200]>>
    /\ table[2].fund_value = <<[date |-> 1, fund_value |-> 200, unit_value |-> 200]>>

\* C10 (as claimed): the table holds at most one Series per normalized
\* (trimmed, lowercased) fund name.
C10_OneSeriesPerName ==
    \A i, j \in 1..Len(table) :
        Normalized(table[i].fund) = Normalized(table[j].fund) => i = j

\* The records of a list are in non-decreasing date order.
InDateOrder(s) == \A i \in 1..(Len(s) - 1) : s[i].date <= s[i + 1].date

BalancesInOrder(t) == \A i \in 1..Len(t) : InDateOrder(t[i].balance)
ActionsInOrder(t) == \A i \in 1..Len(t) : InDateOrder(t[i].action)
ValuesInOrder(t) == \A i \in 1..Len(t) : InDateOrder(t[i].fund_value)

LedgerInOrder(t) == BalancesInOrder(t) /\ ActionsInOrder(t) /\ ValuesInOrder(t)

\* C11 (as claimed): from a ledger loaded in date order, once a pass has ended
\* the list it merges into is in non-decreasing date order in every Series of
\* the table that is hashed and saved: the balances after the balance pass,
\* the actions after the action pass, the fund values after the values pass.
C11_Sortedness ==
    LedgerInOrder(loaded)
    => /\ pc \notin {"balance", "balance_eof"} => BalancesInOrder(table)
       /\ pc \notin {"balance", "balance_eof", "actions", "actions_eof"}
            => ActionsInOrder(table)
       /\ pc \in {"save", "created", "written", "backed", "figures", "crashed"}
            => ValuesInOrder(table)

(***************************************************************************)
(* Claims about the merge of one row.                                      *)
(***************************************************************************)
\* The step split a line at the tabs in the table mode of the pass `at`.
RowRead(at) == pc = at /\ input' # NoInput

\* A row of the account status that has its two columns and a balance that parses.
ValidBalanceRow(cells) ==
    /\ Len(cells) >= 2
    /\ ParseF64(replace(cells[2], {"$", ",", " "})).ok

\* The balances table t stores for a fund at the date of the run.
BalancesToday(t, fund) ==
    UNION {{t[i].balance[j].balance :
                j \in {n \in 1..Len(t[i].balance) : t[i].balance[n].date = date}} :
           i \in {n \in 1..Len(t) : t[n].fund = fund}}

\* The Series of the other funds are as they were.
OthersKept(t1, t2, fund) ==
    /\ Len(t2) >= Len(t1)
    /\ \A i \in 1..Len(t1) : t1[i].fund # fund => t2[i] = t1[i]

\* The outcome the claim gives a valid row (fund, v) of the account status.
BalanceWritten(fund, v) ==
    /\ BalancesToday(table', fund) = {v}
    /\ OthersKept(table, table', fund)
    /\ (errors' # errors) <=> (BalancesToday(table, fund) \notin {{}, {v}})
    /\ errors_produced' = errors_produced
    /\ BalancesToday(table, fund) = {v} => table' = table

\* C12: every valid row of the account status leaves its value as the fund's
\* balance of the run date and touches no other fund, so that the last row of
\* a fund wins; a warning (no fatal error) is recorded exactly when a
\* different value was stored for that fund and date when the row is
\* processed; a row equal to the stored value changes nothing.
C12_BalanceLastWriteWins ==
    [][(RowRead("balance") /\ ValidBalanceRow(input'.cells))
         => BalanceWritten(input'.cells[1],
                           ParseCents(replace(input'.cells[2], {"$", ",", " "})).cents)]_vars

\* The balance of a fund was overwritten twice, each time with a warning, and
\* the last row's value is the one stored.
C12_Witness ==
    /\ pc = "balance"
    /\ input = Payload(<<FundA, Money1>>)
    /\ loaded = Loaded2
    /\ Len(errors) = 2
    /\ ~errors_produced
    /\ BalancesToday(table, FundA) = {100}

\* The fund-value records table t stores for a fund at date d, in order.
ValuesAt(t, fund, d) ==
    LET i == position([n \in 1..Len(t) |-> t[n].fund = fund])
    IN  IF i = 0 THEN <<>> ELSE SelectSeq(t[i].fund_value, LAMBDA u : u.date = d)

\* The number of fund-value records table t stores for a fund.
ValuesOf(t, fund) ==
    LET i == position([n \in 1..Len(t) |-> t[n].fund = fund])
    IN  IF i = 0 THEN 0 ELSE Len(t[i].fund_value)

\* The warnings the claim gives a row that meets the record `before`.
ValueWarnings(before, fund_value, unit_value) ==
    (IF before.fund_value # fund_value THEN <<"Warning nwSSqjjY">> ELSE <<>>)
    \o (IF before.unit_value # unit_value THEN <<"Warning bxZohaYm">> ELSE <<>>)

\* The outcome the claim gives a valid row of the first sub-table.
ValueWritten(fund, d, fund_value, unit_value) ==
    /\ ValuesAt(table', fund, d)
         = <<[date |-> d, fund_value |-> fund_value, unit_value |-> unit_value]>>
    /\ OthersKept(table, table', fund)
    /\ errors_produced' = errors_produced
    /\ IF ValuesAt(table, fund, d) = <<>>
       THEN /\ errors' = errors
            /\ ValuesOf(table', fund) = ValuesOf(table, fund) + 1
       ELSE /\ errors' = errors \o ValueWarnings(ValuesAt(table, fund, d)[1],
                                                 fund_value, unit_value)
            /\ ValuesOf(table', fund) = ValuesOf(table, fund)

\* C13: every valid row (fund, date, fund_value, unit_value) of the first
\* sub-table leaves exactly one record of that date for the fund, holding the
\* row's two values; when a record of the date existed, each of the two fields
\* that differs is overwritten with its own warning and no record is added.
C13_FundValueLastWriteWins ==
    [][(RowRead("values") /\ mode = "Table"
        /\ ~ValueRow(table, table_cuml, input'.cells).is_error)
         => ValueWritten(input'.cells[1], ParseDate2(input'.cells[2]).date,
                         ParseCents(replace(input'.cells[3], {"$", ",", " "})).cents,
                         ParseCents(replace(input'.cells[4], {"$", ",", " "})).cents)]_vars

\* A row overwrote one field of the record loaded, and the next row both.
C13_Witness ==
    /\ pc = "values"
    /\ input # NoInput
    /\ loaded = Loaded2
    /\ errors = <<"Warning nwSSqjjY", "Warning nwSSqjjY", "Warning bxZohaYm">>
    /\ ValuesAt(table, FundA, 1) = <<[date |-> 1, fund_value |-> 100, unit_value |-> 100]>>

\* The occurrences of the signature (d, change) of a fund counted by the
\* Repetitions of the page.
RECURSIVE Counted(_, _, _, _, _)
Counted(t, reps, fund, d, change) ==
    IF reps = <<>> THEN 0
    ELSE (IF /\ t[Head(reps).fund_index].fund = fund
             /\ SameAction(t[Head(reps).fund_index].action[Head(reps).action_index],
                           d, change)
          THEN Head(reps).repetition ELSE 0)
         + Counted(t, Tail(reps), fund, d, change)

\* The records stored and the occurrences counted for a signature.
Tally(t, reps, fund, d, change) ==
    CountIn(t, fund, d, change) + Counted(t, reps, fund, d, change)

\* The row entered the ledger as one action (d, change) of the fund: a record
\* stored or an occurrence counted, and no message.
ActionTaken(fund, d, change) ==
    /\ Tally(table', repetitions', fund, d, change)
         = Tally(table, repetitions, fund, d, change) + 1
    /\ errors' = errors

\* The row left the ledger and the counters alone and is a fatal error.
ActionRefused ==
    /\ table' = table
    /\ repetitions' = repetitions
    /\ Len(errors') = Len(errors) + 1
    /\ errors_produced'

\* A row of an action page that is well formed whatever its label is.
LabelledRow(cells) ==
    /\ Len(cells) >= 5
    /\ ParseDate(cells[1]).ok
    /\ ParseF64(replace(cells[5], {"$", ",", "\n"})).ok

LabelOutcome(cells, amount) ==
    CASE cells[3] \in {"Aporte", "Aporte por traslado de otro portafolio"}
           -> ActionTaken(cells[2], ParseDate(cells[1]).date, amount)
      [] cells[3] \in {"Aporte por traslado a otro portafolio", "Retiro parcial"}
           -> ActionTaken(cells[2], ParseDate(cells[1]).date, 0 - amount)
      [] OTHER -> ActionRefused

\* C14: a well-formed action row enters the ledger with the change +amount for
\* the labels 'Aporte' and 'Aporte por traslado de otro portafolio' and -amount
\* for 'Aporte por traslado a otro portafolio' and 'Retiro parcial'; with any
\* other label it adds no action and no Series, counts no repetition and is
\* recorded as a fatal error.
C14_ActionLabels ==
    [][(RowRead("actions") /\ LabelledRow(input'.cells))
         => LabelOutcome(input'.cells,
                         ParseCents(replace(input'.cells[5], {"$", ",", "\n"})).cents)]_vars

\* A row of an unknown label was refused, then a withdrawal was stored negative.
C14_Witness ==
    /\ pc = "actions"
    /\ input = Payload(<<Day1, FundB, "Retiro parcial", "t", Money1>>)
    /\ errors = <<"KevkgKt9">>
    /\ errors_produced
    /\ loaded = <<>>
    /\ table = <<NewSeries(FundB, <<>>, <<[date |-> 1, change |-> -100]>>, <<>>)>>

(***************************************************************************)
(* Claims about the first figure.                                          *)
(***************************************************************************)
Zero == Fraction(0, 1)

\* The series drawn in the windows so far.
DrawnSeries == {<<w, k>> \in (1..Len(plots)) \X (1..2) : k <= Len(plots[w].series_vec)}

\* C15: in every window, the first point of the variation of each fund drawn,
\* the one at its initial balance, is zero, whatever the balance, 0 included.
C15_ZeroAtInitialBalance ==
    \A x \in DrawnSeries : plots[x[1]].series_vec[x[2]].variation[1].value = Zero

\* The sum of the changes of the actions dated from `from` on and before `before`.
RECURSIVE FlowsBetween(_, _, _)
FlowsBetween(action, from, before) ==
    IF action = <<>> THEN 0
    ELSE (IF Head(action).date >= from /\ Head(action).date < before
          THEN Head(action).change ELSE 0)
         + FlowsBetween(Tail(action), from, before)

\* The Series of the ledger that is drawn under the name `fund`.
LedgerSeries(fund) == CHOOSE n \in 1..Len(loaded) : to_lowercase(loaded[n].fund) = fund

\* The places of the balances of a Series that are in the window.
InWindow(series, start) ==
    {n \in 1..Len(series.balance) : series.balance[n].date >= start}

\* The balance of the window with the least date, and the one next before d.
InitialBalance(series, start) ==
    series.balance[CHOOSE n \in InWindow(series, start) :
                     \A m \in InWindow(series, start) :
                        series.balance[n].date <= series.balance[m].date]

PreviousDate(series, start, d) ==
    IF \E n \in InWindow(series, start) : series.balance[n].date < d
    THEN SeqMax([i \in 1..Len(series.balance) |->
                   IF i \in InWindow(series, start) /\ series.balance[i].date < d
                   THEN series.balance[i].date ELSE start])
    ELSE d

\* 100 G / R as an f64: not a number for 0 / 0, an infinity for G / 0.
PercentageOf(G, R) ==
    IF R = 0 THEN (IF G = 0 THEN NaN ELSE Infinity(IF G < 0 THEN -1 ELSE 1))
    ELSE Fraction(100 * G, R)

\* Of two percentages the one of smaller magnitude; the first one when they are
\* equal in magnitude or one of them is not a number.
SmallerOf(p1, p2) == IF AbsGreater(p1, p2) THEN p2 ELSE p1

\* The growth net of flows at the balance b, as a percentage of the money put
\* in up to the balance before b (R1) or up to b (R2).
GrowthPercent(b, initial, flows1, flows2) ==
    SmallerOf(PercentageOf(b.balance - initial.balance - flows2, initial.balance + flows1),
              PercentageOf(b.balance - initial.balance - flows2, initial.balance + flows2))

ExpectedAt(series, start, b, initial) ==
    GrowthPercent(b, initial,
                  FlowsBetween(series.action, initial.date,
                               PreviousDate(series, start, b.date)),
                  FlowsBetween(series.action, initial.date, b.date))

GrowthNetOfFlows(series, b, initial) ==
    b.balance - initial.balance - FlowsBetween(series.action, initial.date, b.date)

\* A drawn series has one point for each balance of the window.
PointPerBalance(ps, series, start) ==
    /\ Len(ps.variation) = Cardinality(InWindow(series, start))
    /\ \A n \in InWindow(series, start) :
          \E j \in 1..Len(ps.variation) : ps.variation[j].date = series.balance[n].date

\* The balance of the ledger a point is drawn at.
BalanceAt(series, d) ==
    series.balance[CHOOSE n \in 1..Len(series.balance) : series.balance[n].date = d]

IsGrowthPercent(ps, series, start) ==
    /\ PointPerBalance(ps, series, start)
    /\ \A j \in 1..Len(ps.variation) :
          ps.variation[j].value
             = ExpectedAt(series, start, BalanceAt(series, ps.variation[j].date),
                          InitialBalance(series, start))

IsGrowthInMoney(ps, series, start) ==
    /\ PointPerBalance(ps, series, start)
    /\ \A j \in 1..Len(ps.variation) :
          ps.variation[j].value
             \in {Fraction(GrowthNetOfFlows(series, BalanceAt(series, ps.variation[j].date),
                                            InitialBalance(series, start)), cents) :
                    cents \in {1, 100}}

Scenario ==
    <<NewSeries(FundA, <<[date |-> 3, balance |-> 100000], [date |-> 5, balance |-> 115000]>>,
                <<[date |-> 4, change |-> 10000]>>, <<>>)>>

RECURSIVE FlowsFrom(_, _)
FlowsFrom(action, from) ==
    IF action = <<>> THEN 0
    ELSE (IF Head(action).date >= from THEN Head(action).change ELSE 0)
         + FlowsFrom(Tail(action), from)

\* The balance of a Series with the greatest date.
LastBalance(series) ==
    series.balance[CHOOSE n \in 1..Len(series.balance) :
                     \A m \in 1..Len(series.balance) :
                        series.balance[m].date <= series.balance[n].date]

\* The first balance of the window plus every action from its date on.
Invested(series, initial) == initial.balance + FlowsFrom(series.action, initial.date)

\* The sums over the funds of the ledger that have a balance in the window.
RECURSIVE SumOfLastBalances(_, _)
SumOfLastBalances(ledger, start) ==
    IF ledger = <<>> THEN 0
    ELSE (IF InWindow(Head(ledger), start) = {} THEN 0
          ELSE LastBalance(Head(ledger)).balance)
         + SumOfLastBalances(Tail(ledger), start)

RECURSIVE SumOfInvestments(_, _)
SumOfInvestments(ledger, start) ==
    IF ledger = <<>> THEN 0
    ELSE (IF InWindow(Head(ledger), start) = {} THEN 0
          ELSE Invested(Head(ledger), InitialBalance(Head(ledger), start)))
         + SumOfInvestments(Tail(ledger), start)

ConsolidatedAre(w, balance, investment) ==
    /\ w.consolidated_balance_i = balance
    /\ w.consolidated_investment_i = investment
    /\ w.consolidated_variation = Fraction(balance - investment, 100)

\* C17: in each window drawn, the consolidated balance is the sum, over the
\* funds with a balance dated on or after the start, of the fund's last balance;
\* the consolidated investment is the sum over the same funds of the first
\* balance dated on or after the start plus every action dated on or after that
\* balance's date; the consolidated profit is their difference.
C17_ConsolidatedFigures ==
    \A w \in 1..Len(plots) :
       ~plots[w].skipped
       => ConsolidatedAre(plots[w],
                          SumOfLastBalances(loaded, today - plots[w].duration),
                          SumOfInvestments(loaded, today - plots[w].duration))

\* The scenario stored newest first, its 7-day window drawn: investment 110000
\* cents, profit 5000 cents.
C17_Witness ==
    /\ loaded = <<NewSeries(FundA, <<Scenario[1].balance[2], Scenario[1].balance[1]>>,
                            Scenario[1].action, <<>>)>>
    /\ Len(plots) >= 1
    /\ ~plots[1].skipped
    /\ plots[1].consolidated_balance_i = 115000
    /\ plots[1].consolidated_investment_i = 110000
    /\ plots[1].consolidated_variation = Fraction(5000, 100)

\* The durations that cannot be subtracted from the date of the clock.
Impossible == {i \in 1..Len(durations) : ~checked_sub_signed(today, durations[i]).ok}

C19_PassEnds == <>(pc \notin {"balance", "balance_eof"})

(***************************************************************************)
(* Claims about the returns on equity.                                     *)
(***************************************************************************)
\* A row of the first sub-table whose return of the last year is the cell
\* "NA " is merged by the step.
NaRowMerged ==
    /\ pc = "values" /\ mode = "Table"
    /\ input' # NoInput
    /\ Len(input'.cells) = 9
    /\ input'.cells[8] = NaSpace
    /\ Len(table_cuml') = Len(table_cuml) + 1

\* What is recorded for a fund whose published return is "0 % EA ".
PublishedZero == ParseRoe(Roe(<<"0">>, "% EA "), NaSpace, "% EA ").value

\* C20: a return on equity published as NA is recorded as unknown, so that it
\* differs from what is recorded for a return published as 0.
C20_NaIsNotZero ==
    [][NaRowMerged => table_cuml'[Len(table_cuml')].roe_last_year # PublishedZero]_vars

(***************************************************************************)
(* Claims about money cells.                                               *)
(***************************************************************************)
\* The digits of a text that holds nothing but digits and commas.
Ungrouped(s) == replace(s, {","})

\* The units before the point are digits, grouped by commas every 3 digits.
GroupedUnits(ip) ==
    /\ Ungrouped(ip) # <<>>
    /\ \A i \in 1..Len(Ungrouped(ip)) : Ungrouped(ip)[i] \in Digits
    /\ ip = Grouped(Ungrouped(ip))

\* "$", the units, then "." and exactly 2 digits; n is the length of the field.
StrictParts(field, n) ==
    /\ n >= 5
    /\ field[1] = "$"
    /\ GroupedUnits(SubSeq(field, 2, n - 3))
    /\ field[n - 2] = "."
    /\ field[n - 1] \in Digits /\ field[n] \in Digits

StrictMoney(field) == StrictParts(field, Len(field))

\* The money cell of the row the step has split.
RowField == input.cells[2]

\* C21: a money cell that does not start with "$", group its digits by commas
\* every 3 digits and end with exactly 2 decimal digits is rejected with an
\* error, and its row is not merged.
C21_StrictCurrency ==
    (input # NoInput /\ ~StrictMoney(RowField)) => (errors_produced /\ table = loaded)

\* C22: a money cell that is the canonical text of c cents ("$", the units
\* grouped by commas, ".", two digits) stores exactly c cents.
C22_ExactRoundTrip ==
    \A c \in MoneyCents :
       (input # NoInput /\ RowField = Formatted(c))
       => table = <<NewSeries(FundA, <<[date |-> date, balance |-> c]>>, <<>>, <<>>)>>

(***************************************************************************)
(* Claims about the end of a pass.                                         *)
(***************************************************************************)
\* A page left the table as its rows followed by the reconciliation leave it.
Reconciled(h) == SameActions(h.after, IngestPage(h.start, h.rows))

\* C23: every page of the action pass from which a row was merged or counted
\* is followed by the reconciliation before the pass ends, also when the line
\* EOF ends the pass while the page is in Table or Footer mode.
C23_ReconciliationRuns == \A i \in 1..Len(hist) : Reconciled(hist[i])

\* A step of a pass taken after a row of that pass produced a fatal message.
AfterFatalRow == pc \in {"balance", "actions", "values"} /\ errors_produced

\* C24: once a row of a pass has produced a fatal error, no later row of that
\* pass changes the table.
C24_FatalStopsPass == [][AfterFatalRow => table' = table]_vars

\* The save is over and funds.dat holds the table of the run.
Saved == pc = "figures" /\ dat = FileOf(table) /\ newf = NoFile

\* C25: a run whose only messages are warnings of a changed value is not
\* ended by them, and once it is past the save of a changed table the file
\* funds.dat holds the table, the new values in it.
C25_WarningsRecoverable ==
    ~fatal => /\ pc # "returned"
              /\ (pc = "figures" /\ table # loaded) => Saved

\* The balance of fund a of the run date, 100 when loaded, was read as 200
\* with a warning, and the table with 200 is saved.
C25_Witness ==
    /\ Saved
    /\ ~fatal
    /\ loaded = Loaded2
    /\ BalancesToday(table, FundA) = {200}

(***************************************************************************)
(* Claims about the save.                                                  *)
(***************************************************************************)
\* A step touches the files only within the save, which follows the passes.
OnlyInSave == files' # files => pc \in {"save", "created", "written", "backed"}

\* funds.new is created once: no step of a save came before.
CreatedOnce == (~newf.exists /\ newf'.exists) => (pc = "save" /\ FilesUntouched)

\* funds.dat is renamed to the backup when funds.new holds the whole table.
BackupAfterWrite ==
    backup' # backup => /\ newf = FileOf(table)
                        /\ dat.exists /\ backup' = dat /\ dat' = NoFile

\* funds.new is renamed to funds.dat after that, the former contents of
\* funds.dat being in the backup.
RenameAfterBackup ==
    (dat' # dat /\ dat'.exists) => /\ newf = FileOf(table) /\ dat' = newf
                                   /\ ~dat.exists
                                   /\ loaded # <<>> => backup = FileOf(loaded)

\* C26: the save runs at most once and after the three passes; funds.new is
\* written completely, then funds.dat is renamed to the backup, then funds.new
\* is renamed to funds.dat; a funds.dat that is replaced is in the backup first.
C26_PersistenceOrdering ==
    [][OnlyInSave /\ CreatedOnce /\ BackupAfterWrite /\ RenameAfterBackup]_vars

\* A changed table replaced the funds.dat found, which is now the backup.
C26_Witness ==
    /\ pc = "figures"
    /\ loaded # <<>>
    /\ table # loaded
    /\ dat = FileOf(table)
    /\ backup = FileOf(loaded)

\* The records table l holds are all in table t: every Series of l is in t at
\* its place, with its actions, its fund values and its balances first.
HoldsAll(t, l) ==
    /\ Len(t) >= Len(l)
    /\ \A i \in 1..Len(l) :
          /\ t[i].fund = l[i].fund
          /\ t[i].action = l[i].action
          /\ t[i].fund_value = l[i].fund_value
          /\ Len(t[i].balance) >= Len(l[i].balance)
          /\ SubSeq(t[i].balance, 1, Len(l[i].balance)) = l[i].balance

\* The save is over, or was never needed.
PastSave == pc \in {"figures", "windows", "drawn", "panicked"}

\* C27: when the table after the passes differs from the loaded one and no
\* fatal error occurred, then from the end of the save on funds.dat holds the
\* whole table: the balance read in the run and every record loaded, those
\* older than the longest window too, whatever the figures filter.
C27_Durability ==
    (PastSave /\ ~fatal)
    => /\ dat.exists /\ dat.complete
       /\ pc = "figures" => dat.data = table
       /\ HoldsAll(dat.data, loaded)
       /\ Cardinality(BalancesToday(dat.data, FundA)) = 1

\* funds.dat held a balance 70 days older than the run; the first figure is
\* drawn from the filtered copy and funds.dat still has that balance.
C27_Witness ==
    /\ pc = "drawn"
    /\ \E n \in 1..Len(loaded[1].balance) : loaded[1].balance[n].date = -61
    /\ \A n \in 1..Len(table[1].balance) : table[1].balance[n].date # -61
    /\ \E n \in 1..Len(dat.data[1].balance) : dat.data[1].balance[n].date = -61
    /\ backup = FileOf(loaded)

(***************************************************************************)
(* Claims about the modes of the read loops.                               *)
(***************************************************************************)
\* The place of a mode in the order of its report.
ModeRank(m) ==
    CASE m = "Header" -> 0 [] m = "SkipSubHeader" -> 1 [] m = "Table" -> 2
      [] m = "Intermission" -> 3 [] m = "Table1" -> 4 [] m = "Footer" -> 5

\* A step that reads a line of a report and stays in its pass.
ReadsOn == pc \in {"balance", "actions", "values"} /\ pc' = pc

\* The footer line of a page of actions: the next page starts at its header.
PageEnds == pc = "actions" /\ mode = "Footer" /\ mode' = "Header"

\* Within one report the mode only advances.
ModeAdvances == (ReadsOn /\ ~PageEnds) => ModeRank(mode') >= ModeRank(mode)

\* The table or the returns on equity change.
Modifies == table' # table \/ table_cuml' # table_cuml

\* C28 as stated: in each pass the mode only advances within one report, and
\* a line changes the table or the returns on equity only when it is read in
\* a table mode.
C28_PayloadOnlyInTable ==
    [][/\ ModeAdvances
       /\ (pc \in {"balance", "actions", "values"} /\ Modifies)
          => mode \in {"Table", "Table1"}]_vars

\* C28, amended: in each pass the mode only advances within one report, and a
\* line changes the table or the returns on equity only when it is read in a
\* table mode, or when it is the footer line that ends a page of actions: the
\* reconciliation of the page then appends its clones.
C28_PayloadOrReconciliation ==
    [][/\ ModeAdvances
       /\ (pc \in {"balance", "actions", "values"} /\ Modifies)
          => \/ mode \in {"Table", "Table1"}
             \/ /\ pc = "actions" /\ mode = "Footer"
                /\ table' = Reconcile(table, repetitions)
                /\ table_cuml' = table_cuml]_vars

\* The footer line of a page was read and its reconciliation changed the table.
C28_Witness ==
    /\ pc \in {"actions", "actions_eof"}
    /\ \E i \in Footered :
          /\ i = Len(hist)
          /\ hist[i].after = table
          /\ ~SameActions(table, MergeRows(hist[i].start, <<>>, hist[i].rows).table)

(***************************************************************************)
(* Claims about the walk of the variation.                                 *)
(***************************************************************************)
\* The windows drawn so far and the series of the table, with the walk of the
\* series in the window.
DrawnWalks ==
    {<<w, n>> \in (1..Len(plots)) \X (1..Len(table)) :
        /\ pc \in {"windows", "drawn"}
        /\ ~plots[w].skipped
        /\ WalkFrom(SkipBefore(table[n].balance, today - plots[w].duration),
                    table[n].action) # <<>>}

WalkOf(x) ==
    WalkFrom(SkipBefore(table[x[2]].balance, today - plots[x[1]].duration),
             table[x[2]].action)

\* The number of records equal to r in the list s.
Copies(r, s) == Cardinality({i \in 1..Len(s) : s[i] = r})

\* The actions consumed up to step st are, record by record and as many times
\* as the ledger holds them, the actions of the ledger dated from the initial
\* balance on and before the balance of the step; nothing else is consumed.
ConsumedExactly(st, initial, action) ==
    \A r \in {action[i] : i \in 1..Len(action)}
             \cup {st.consumed[i] : i \in 1..Len(st.consumed)} :
       Copies(r, st.consumed)
          = IF r.date >= initial.date /\ r.date < st.b.date
            THEN Copies(r, action) ELSE 0

\* The walk of a series against the ledger the figures were copied from.
WalkConsumes(walk, ps, series) ==
    /\ Len(ps.variation) = Len(walk)
    /\ \A k \in 1..Len(walk) :
          /\ ps.variation[k].date = walk[k].b.date
          /\ ConsumedExactly(walk[k], walk[1].b, series.action)
          /\ walk[k].running_balance
                = walk[1].b.balance + SumChanges(walk[k].consumed)
          /\ walk[k].running_balance
                = walk[1].b.balance
                  + FlowsBetween(series.action, walk[1].b.date, walk[k].b.date)
          /\ k > 1 => /\ Len(walk[k - 1].consumed) <= Len(walk[k].consumed)
                      /\ SubSeq(walk[k].consumed, 1, Len(walk[k - 1].consumed))
                            = walk[k - 1].consumed

\* The series a window drew for the series n of the table.
DrawnFor(w, n) ==
    plots[w].series_vec[CHOOSE k \in 1..Len(plots[w].series_vec) :
                           plots[w].series_vec[k].fund = to_lowercase(table[n].fund)]

\* C29: for a fund in a window, when the walk has processed the balance b the
\* consumed actions are exactly the actions of the ledger dated on or after
\* the initial balance's date and strictly before b.date, each once, none of
\* them dated before the initial balance, and the running balance is the
\* initial balance plus the sum of the consumed actions.
C29_ActionConsumption ==
    \A x \in DrawnWalks :
       WalkConsumes(WalkOf(x), DrawnFor(x[1], x[2]), loaded[x[2]])

\* A window whose walk has consumed an action at its second balance while the
\* ledger holds an action dated before the initial balance, never consumed.
C29_Witness ==
    \E x \in DrawnWalks :
       /\ Len(WalkOf(x)) = 2
       /\ WalkOf(x)[1].consumed = <<>>
       /\ WalkOf(x)[2].consumed = <<[date |-> 4, change |-> 100]>>
       /\ \E i \in 1..Len(loaded[x[2]].action) :
             loaded[x[2]].action[i] = [date |-> 2, change |-> 50]

\* The running balance before the flows of step k of a walk, and the flows of
\* the step.
RunningBefore(walk, k) ==
    IF k = 1 THEN walk[1].b.balance ELSE walk[k - 1].running_balance

StepFlows(walk, k) == walk[k].running_balance - RunningBefore(walk, k)

\* variation1 compares the balance without the flows of the step with the
\* running balance before them, variation2 the balance with the running
\* balance after them.
Variation1(walk, k) ==
    Variation(walk[k].b.balance - StepFlows(walk, k), RunningBefore(walk, k))

Variation2(walk, k) == Variation(walk[k].b.balance, walk[k].running_balance)

\* |v1| <= |v2| and |v1| > |v2| of f64 values: both are false of a NaN.
MagnitudeLeq(v1, v2) ==
    /\ v1.kind # "NaN" /\ v2.kind # "NaN"
    /\ \/ v2.kind = "inf"
       \/ /\ v1.kind = "finite" /\ v2.kind = "finite"
          /\ Abs(v1.num) * v2.den <= Abs(v2.num) * v1.den

MagnitudeGreater(v1, v2) ==
    /\ v1.kind # "NaN" /\ v2.kind # "NaN"
    /\ ~MagnitudeLeq(v1, v2)

SmallerChosen(walk, ps, k) ==
    /\ MagnitudeLeq(Variation1(walk, k), Variation2(walk, k))
          => ps.variation[k].value = Variation1(walk, k)
    /\ MagnitudeGreater(Variation1(walk, k), Variation2(walk, k))
          => ps.variation[k].value = Variation2(walk, k)

\* C30: for every balance record b of the walk the emitted value is variation1
\* when |variation1| <= |variation2| and variation2 when
\* |variation1| > |variation2|.
C30_SmallerMagnitude ==
    \A x \in DrawnWalks :
       /\ Len(DrawnFor(x[1], x[2]).variation) = Len(WalkOf(x))
       /\ \A k \in 1..Len(WalkOf(x)) : SmallerChosen(WalkOf(x), DrawnFor(x[1], x[2]), k)

\* A point where the two variations differ and the second, of the smaller
\* magnitude, was emitted: 5 per cent against 50/11 per cent.
C30_Witness ==
    \E x \in DrawnWalks :
       /\ Len(WalkOf(x)) = 2
       /\ Variation1(WalkOf(x), 2) = Fraction(5, 1)
       /\ MagnitudeGreater(Variation1(WalkOf(x), 2), Variation2(WalkOf(x), 2))
       /\ DrawnFor(x[1], x[2]).variation[2].value = Variation2(WalkOf(x), 2)

(***************************************************************************)
(* Claims about the second figure.                                         *)
(***************************************************************************)
\* The windows of the second figure drawn so far.
UnitWindows == {w \in 1..Len(plots) : w > Len(durations) /\ ~plots[w].skipped}

\* The funds of the ledger with a fund_value dated on or after the start.
WithUnitValues(start) ==
    {n \in 1..Len(loaded) :
        \E i \in 1..Len(loaded[n].fund_value) : loaded[n].fund_value[i].date >= start}

\* The series of the window w is the percent change of the unit value of the
\* fund n relative to its first record of the window.
IsUnitSeries(ps, series, start) ==
    /\ ps.fund = to_lowercase(series.fund)
    /\ Len(ps.variation)
          = Cardinality({i \in 1..Len(series.fund_value) :
                            series.fund_value[i].date >= start})
    /\ ps.variation[1].value = Fraction(0, 1) \/ ps.variation[1].value = NaN

\* C31: in every window, every fund with a fund_value record dated on or
\* after the start date has a unit-value series, whether or not it has a
\* balance or an action in the window.
C31_UnitSeriesIndependent ==
    \A w \in UnitWindows :
       \A n \in WithUnitValues(today - plots[w].duration) :
          \E k \in 1..Len(plots[w].series_vec) :
             IsUnitSeries(plots[w].series_vec[k], loaded[n], today - plots[w].duration)

(***************************************************************************)
(* Claims about the returns on equity.                                     *)
(***************************************************************************)
\* The records of the returns on equity stored under the name `fund`.
CumlOf(cuml, fund) == {i \in 1..Len(cuml) : cuml[i].fund = fund}

\* A row of a sub-table of the returns report was read with no fatal error
\* in the pass.
RoeRowRead(m) ==
    pc = "values" /\ mode = m /\ input' # NoInput /\ ~errors_produced'

\* After the row the aggregate holds one record of the fund of the row, with
\* the yearly figures of a first-sub-table row ...
YearlyCarried ==
    RoeRowRead("Table") =>
       /\ Cardinality(CumlOf(table_cuml', input'.cells[1])) = 1
       /\ \A i \in CumlOf(table_cuml', input'.cells[1]) :
             table_cuml'[i].roe_year_to_date
                = ParseRoe(input'.cells[9], NaNewline, "% EA\n").value

\* ... and with the periodic figures of a second-sub-table row.
PeriodicCarried ==
    RoeRowRead("Table1") =>
       /\ Cardinality(CumlOf(table_cuml', input'.cells[1])) = 1
       /\ \A i \in CumlOf(table_cuml', input'.cells[1]) :
             table_cuml'[i].roe_day = ParseRoe1(input'.cells[2], 1).value

\* C32: after the returns report is ingested without fatal error, for every
\* fund name of the first sub-table, of the second or of both (any number of
\* times) the aggregate holds exactly one record of that name, with the
\* yearly figures of its first-sub-table row and the periodic figures of its
\* second-sub-table row.
C32_OneAggregatePerFund == [][YearlyCarried /\ PeriodicCarried]_vars

(***************************************************************************)
(* Claims about the sweep of the windows.                                  *)
(***************************************************************************)
\* A window of the first or of the second figure panics.
SweepPanics == pc \in {"windows", "drawn", "units"} /\ pc' = "panicked"

\* C33: for every ledger, a fund with an initial balance or unit value of 0
\* and a window of more than 20 funds included, the series of the windows,
\* their minimum and maximum and the colours of the funds are computed
\* without a panic.
C33_SweepNeverAborts == [][~SweepPanics]_vars

(***************************************************************************)
(* Claims about what a row may change.                                     *)
(***************************************************************************)
\* The Series stored before the step keep their places and names, and at
\* most one is added, under the name `fund`.
SeriesKept(fund) ==
    /\ Len(table') \in {Len(table), Len(table) + 1}
    /\ \A n \in 1..Len(table) : table'[n].fund = table[n].fund
    /\ Len(table') > Len(table) => table'[Len(table')].fund = fund

\* The Series of every other name are unchanged.
OthersUnchanged(fund) ==
    \A n \in 1..Len(table) : table[n].fund # fund => table'[n] = table[n]

\* The lists of the Series n before the step, empty for a Series the step
\* creates.
Before(n) == IF n <= Len(table) THEN table[n] ELSE NewSeries(<<>>, <<>>, <<>>, <<>>)

\* The fund the row read by the step names in its cell k.
NamedFund(k) == IF Len(input'.cells) >= k THEN input'.cells[k] ELSE <<>>

\* A balance row changes balances only; a Series it creates has one balance.
FrameBalance ==
    (pc = "balance" /\ input' # NoInput) =>
       /\ SeriesKept(NamedFund(1)) /\ OthersUnchanged(NamedFund(1))
       /\ \A n \in 1..Len(table') :
             /\ table'[n].action = Before(n).action
             /\ table'[n].fund_value = Before(n).fund_value
             /\ n > Len(table) => Len(table'[n].balance) = 1
       /\ table_cuml' = table_cuml

\* An action row changes actions only; a Series it creates has one action.
FrameAction ==
    (pc = "actions" /\ input' # NoInput) =>
       /\ SeriesKept(NamedFund(2)) /\ OthersUnchanged(NamedFund(2))
       /\ \A n \in 1..Len(table') :
             /\ table'[n].balance = Before(n).balance
             /\ table'[n].fund_value = Before(n).fund_value
             /\ n > Len(table) => Len(table'[n].action) = 1
       /\ table_cuml' = table_cuml

\* The reconciliation at the end of a page changes actions only.
FrameReconciliation ==
    (pc = "actions" /\ input' = NoInput) =>
       /\ Len(table') = Len(table)
       /\ \A n \in 1..Len(table) :
             /\ table'[n].fund = table[n].fund
             /\ table'[n].balance = table[n].balance
             /\ table'[n].fund_value = table[n].fund_value
       /\ table_cuml' = table_cuml

\* A row of the first sub-table changes fund values and the returns only.
FrameValues ==
    (pc = "values" /\ mode = "Table" /\ input' # NoInput) =>
       /\ SeriesKept(NamedFund(1)) /\ OthersUnchanged(NamedFund(1))
       /\ \A n \in 1..Len(table') :
             /\ table'[n].balance = Before(n).balance
             /\ table'[n].action = Before(n).action
             /\ n > Len(table) => Len(table'[n].fund_value) = 1

\* A row of the second sub-table leaves the table alone.
FrameValues1 ==
    (pc = "values" /\ mode = "Table1" /\ input' # NoInput) => table' = table

\* C34: balance rows change only balances (or create a Series with one
\* balance and no action or fund value); action rows and the reconciliation
\* change only actions (or create a Series with one action); rows of the
\* first sub-table change only fund values and the returns; rows of the
\* second sub-table never change the table.  The records of every fund other
\* than the one the row names are unchanged.
C34_FrameOfEachPass ==
    [][FrameBalance /\ FrameAction /\ FrameReconciliation /\ FrameValues
       /\ FrameValues1]_vars

\* A table that started empty holds one Series with a balance, an action and
\* a fund value, each from a row of its pass.
C34_Witness ==
    /\ loaded = <<>> /\ Len(table) = 1
    /\ Len(table[1].balance) = 1 /\ Len(table[1].action) = 1
    /\ Len(table[1].fund_value) = 1

(***************************************************************************)
(* Claims about the store.                                                 *)
(***************************************************************************)
\* The list `new` holds the records of `old` at their places, by date.
DatesKept(old, new) ==
    /\ Len(new) >= Len(old)
    /\ \A i \in 1..Len(old) : new[i].date = old[i].date

\* The list `new` holds the records of `old` at their places, unchanged.
RecordsKept(old, new) ==
    /\ Len(new) >= Len(old)
    /\ \A i \in 1..Len(old) : new[i] = old[i]

\* The number of actions of a signature stored in a list.
Stored(action, a) ==
    Cardinality({i \in 1..Len(action) : SameAction(action[i], a.date, a.change)})

\* A step of the passes and of the save removes nothing: every Series keeps
\* its place and name, every balance and fund value its place and date,
\* every action its place, date and change.
NothingRemoved ==
    /\ Len(table') >= Len(table)
    /\ \A n \in 1..Len(table) :
          /\ table'[n].fund = table[n].fund
          /\ DatesKept(table[n].balance, table'[n].balance)
          /\ DatesKept(table[n].fund_value, table'[n].fund_value)
          /\ RecordsKept(table[n].action, table'[n].action)
          /\ \A i \in 1..Len(table[n].action) :
                Stored(table'[n].action, table[n].action[i])
                   >= Stored(table[n].action, table[n].action[i])

\* C35: during a run no Series, balance, action or fund value is removed
\* from the table, the number of actions stored for a fund and signature
\* never decreases, and the only changes in place are overwrites of the
\* value fields of a balance or fund value of a date already stored.
C35_AppendOnly == [][NothingRemoved]_vars

\* A Series loaded from the file had a balance overwritten in place and an
\* action appended.
C35_Witness ==
    \E n \in 1..Len(loaded) :
       /\ n <= Len(table)
       /\ Len(table[n].balance) = Len(loaded[n].balance)
       /\ table[n].balance # loaded[n].balance
       /\ Len(table[n].action) > Len(loaded[n].action)

(***************************************************************************)
(* Claims about the rows that fail.                                        *)
(***************************************************************************)
Warnings == {"Warning: Fund changing balance", "Warning nwSSqjjY", "Warning bxZohaYm"}

\* The step read a row and the row added a message that is no warning.
FatalRow ==
    /\ input' # NoInput
    /\ Len(errors') > Len(errors)
    /\ errors'[Len(errors')] \notin Warnings

\* The step read a row of the first sub-table that added no fatal message.
ValueRowApplied ==
    /\ pc = "values" /\ mode = "Table" /\ input' # NoInput
    /\ ~FatalRow

\* C36: a row that produces a fatal error at any of its fields, a late one
\* such as the third return of a row of the returns report included, leaves
\* the table, the repetitions and the returns as they were before the row; a
\* row is applied completely or not at all.
C36_RowAtomicity ==
    [][/\ FatalRow => /\ table' = table
                      /\ repetitions' = repetitions
                      /\ table_cuml' = table_cuml
       /\ ValueRowApplied =>
             /\ Len(table_cuml') = Len(table_cuml) + 1
             /\ \E n \in 1..Len(table') :
                   /\ table'[n].fund = input'.cells[1]
                   /\ \E i \in 1..Len(table'[n].fund_value) :
                         table'[n].fund_value[i].date
                            = ParseDate2(input'.cells[2]).date]_vars

\* A row of the first sub-table failed at its third return, after the fund
\* value and the unit value were parsed, and nothing of it is stored.
C36_Witness ==
    /\ pc = "values" /\ mode = "Table" /\ input # NoInput
    /\ errors # <<>> /\ errors[Len(errors)] = "roe_year_to_date"
    /\ table_cuml = <<>>
    /\ \A n \in 1..Len(table) : table[n].fund_value = <<>>

(***************************************************************************)
(* Claims about a crash within the save.                                   *)
(***************************************************************************)
\* C37: if the process stops at any point of the save, the next run loads
\* the complete ledger of before the run or the complete new ledger, never
\* an empty or partial one.
C37_RestartAfterCrash ==
    pc = "crashed" => /\ load(dat).ok
                      /\ load(dat).table \in {loaded, table}

(***************************************************************************)
(* Claims about runs that read the same lines.                             *)
(***************************************************************************)
\* The run is past its passes and its save.
RunEnded == pc = "figures"

\* The balance pass of the run recorded the warning of a changed balance:
\* the balance stored for the date of the run was not the one of the row.
Warned == loaded[1].balance[1].balance # table[1].balance[1].balance

\* The action rows ingested: the actions stored in the table, by fund.
ActionsIngested ==
    UNION {{<<table[n].fund, table[n].action[i]>> : i \in 1..Len(table[n].action)} :
             n \in 1..Len(table)}

\* The fund-value rows ingested: the fund values stored in the table, by fund.
ValuesIngested ==
    UNION {{<<table[n].fund, table[n].fund_value[i]>> :
              i \in 1..Len(table[n].fund_value)} : n \in 1..Len(table)}

\* The action rows (of five cells) and the fund-value rows (of nine) among
\* the lines offered to the run, as they are parsed.
ActionsOffered ==
    {<<l.cells[2], [date   |-> ParseDate(l.cells[1]).date,
                    change |-> ActionSign(l.cells[3])
                               * ParseCents(replace(l.cells[5], {"$", ",", "\n"})).cents]>> :
        l \in {stdin.offered[k] : k \in {j \in 1..Len(stdin.offered) :
                                            Len(stdin.offered[j].cells) = 5}}}

ValuesOffered ==
    {<<l.cells[1], [date       |-> ParseDate2(l.cells[2]).date,
                    fund_value |-> ParseCents(replace(l.cells[3], {"$", ",", " "})).cents,
                    unit_value |-> ParseCents(replace(l.cells[4], {"$", ",", " "})).cents]>> :
        l \in {stdin.offered[k] : k \in {j \in 1..Len(stdin.offered) :
                                            Len(stdin.offered[j].cells) = 9}}}

\* The rows ingested are the rows of the lines.
RowsIngested ==
    /\ ActionsIngested = ActionsOffered
    /\ ValuesIngested = ValuesOffered

\* A run whose balance pass records no warning ingests the rows of the lines.
UnwarnedIngests == (RunEnded /\ ~Warned) => RowsIngested

\* C38: for the same lines after the account status, the action rows and the
\* fund-value rows ingested are the same whether or not the balance pass
\* recorded a changed-value warning (two runs that differ only in the balance
\* stored for the date of the run).  The run without the warning ingests the
\* rows of the lines (UnwarnedIngests), so every run is to ingest them.
C38_WarningsKeepReports == RunEnded => RowsIngested

\* The entry points at an action of the table.
WithinBounds(r) ==
    /\ r.fund_index \in 1..Len(table)
    /\ r.action_index \in 1..Len(table[r.fund_index].action)

\* The fund and the signature of the action the entry points at.
SignatureOf(r) ==
    [fund   |-> table[r.fund_index].fund,
     date   |-> table[r.fund_index].action[r.action_index].date,
     change |-> table[r.fund_index].action[r.action_index].change]

\* The rows of the page that incremented a counter for the fund and signature
\* g: all of them when the table held g as the page began, all but the first
\* (which stored the action) otherwise.
Incremented(g) ==
    IF CountIn(pageStart, g.fund, g.date, g.change) >= 1
    THEN Occurs(page, g.fund, g.date, g.change)
    ELSE Occurs(page, g.fund, g.date, g.change) - 1

\* The entries pointing at an action of fund and signature g.
EntriesOf(g) ==
    {k \in 1..Len(repetitions) : WithinBounds(repetitions[k]) /\ SignatureOf(repetitions[k]) = g}

\* C39: at the end-of-page reconciliation (and in every state before it) each
\* Repetition's (fund_index, action_index) is within bounds, the action there
\* has the fund and the (date, change) signature of the rows that incremented
\* its counter, which counts exactly those rows, and all the rows of the page
\* with one fund and signature share one entry.
C39_RepetitionsValid ==
    /\ \A k \in 1..Len(repetitions) :
         /\ WithinBounds(repetitions[k])
         /\ repetitions[k].repetition >= 1
         /\ repetitions[k].repetition = Incremented(SignatureOf(repetitions[k]))
    /\ \A g \in RowsOf(page) :
         Cardinality(EntriesOf(g)) = IF Incremented(g) >= 1 THEN 1 ELSE 0

\* The page is at its footer with two entries, of which one counted two rows
\* and one points at an action that is not the first of its fund.
C39_Witness ==
    /\ pc = "actions" /\ mode = "Footer"
    /\ Len(repetitions) >= 2
    /\ \E k \in 1..Len(repetitions) : repetitions[k].repetition >= 2
    /\ \E k \in 1..Len(repetitions) : repetitions[k].action_index >= 2

====
